---- MODULE Spec2Model ----
(***************************************************************************)
(* Model of the Prime Dictation cloud functions: the audio-upload handler  *)
(* (transcode, route to sync/batch recognition, write .txt), the           *)
(* recognition-JSON handler (extract, normalize, write .txt) and the       *)
(* transcript normalizer.                                                  *)
(*                                                                         *)
(* Text is a sequence of characters; a character is a one-character        *)
(* string, except "LS" and "PS" which stand for U+2028 and U+2029.         *)
(***************************************************************************)
EXTENDS Integers, Sequences, FiniteSets, TLC

VARIABLES
    nin,        \* normalizer: the argument `text`
    nstage,     \* normalizer: position in normalizeTranscript
    ntoks,      \* normalizer: toks
    nout,       \* normalizer: out
    ni,         \* normalizer: loop index i (1-based)
    nres,       \* normalizer: returned string
    nres2,      \* normalizer: result of normalizing nres again
    xres,       \* extractor: the recognition result (resp / parsed JSON)
    xstage,     \* extractor: position
    xtextS,     \* extractor: `text` of onAudioUploaded before the placeholder
    xtextJ,     \* extractor: `text` of onAudioTranscribed before the placeholder
    xwS,        \* extractor: text onAudioUploaded hands to save()
    xwJ,        \* extractor: text onAudioTranscribed hands to save()
    deploy,     \* which onAudioUploaded revision is deployed (write strategy)
    precond,    \* the storage client sends an ifGenerationMatch found among
                \* the top-level options of save() with the request
    ceiling,    \* SYNC_MAX_SECONDS
    inv,        \* handler invocations: position and locals of each
    txt,        \* TXT_TRANSCRIPTS_BUCKET: object name -> content
    flac,       \* FLAC_TRANSCODES_BUCKET: object names present
    live,       \* UPLOAD_BUCKET: live generation of each object uploaded again
    fs          \* local /tmp of each function instance: path -> whose audio

normVars == <<nin, nstage, ntoks, nout, ni, nres, nres2>>
extVars == <<xres, xstage, xtextS, xtextJ, xwS, xwJ>>
hVars == <<deploy, precond, ceiling, inv, txt, flac, live, fs>>

vars == <<nin, nstage, ntoks, nout, ni, nres, nres2,
          xres, xstage, xtextS, xtextJ, xwS, xwJ,
          deploy, precond, ceiling, inv, txt, flac, live, fs>>

(***************************************************************************)
(* Bounds                                                                  *)
(***************************************************************************)
MaxToks == 3
MaxSegs == 2
MaxAlts == 2
NumInv == 2
MaxGen == 2

(***************************************************************************)
(* Characters and words                                                    *)
(***************************************************************************)
LineBreaks == {"\n", "\r", "LS", "PS"}
WS == {" ", "\t"} \cup LineBreaks
PunctChars == {".", ",", "!", "?", ";", ":"}
ClosersAndQuotes == {"\"", "'", ")", "]", "}"}

UpperAlpha == <<"A","B","C","D","E","F","G","H","I","J","K","L","M",
                "N","O","P","Q","R","S","T","U","V","W","X","Y","Z">>
LowerAlpha == <<"a","b","c","d","e","f","g","h","i","j","k","l","m",
                "n","o","p","q","r","s","t","u","v","w","x","y","z">>

W_hi == <<"h", "i">>
W_hiDot == <<"h", "i", ".">>
W_say == <<"s", "a", "y">>
W_now == <<"n", "o", "w">>
W_hello == <<"h", "e", "l", "l", "o">>
W_how == <<"h", "o", "w">>
W_are == <<"a", "r", "e">>
W_you == <<"y", "o", "u">>
W_great == <<"g", "r", "e", "a", "t">>
W_literal == <<"l", "i", "t", "e", "r", "a", "l">>
W_Literal == <<"L", "i", "t", "e", "r", "a", "l">>
W_comma == <<"c", "o", "m", "m", "a">>
W_period == <<"p", "e", "r", "i", "o", "d">>
W_Period == <<"P", "e", "r", "i", "o", "d">>
W_colon == <<"c", "o", "l", "o", "n">>
W_semicolon == <<"s", "e", "m", "i", "c", "o", "l", "o", "n">>
W_question == <<"q", "u", "e", "s", "t", "i", "o", "n">>
W_mark == <<"m", "a", "r", "k">>
W_exclamation == <<"e", "x", "c", "l", "a", "m", "a", "t", "i", "o", "n">>
W_point == <<"p", "o", "i", "n", "t">>

Placeholder == <<"[", "E", "m", "p", "t", "y", " ", "t", "r", "a", "n", "s", "c", "r", "i", "p", "t", "]">>

(***************************************************************************)
(* String primitives (String.prototype and the regular expressions used)   *)
(***************************************************************************)
IsWs(c) == c \in WS

\* the lower-case letter of every upper-case letter
ToLower ==
    [c \in {UpperAlpha[k] : k \in 1..26} |->
       LowerAlpha[CHOOSE k \in 1..26 : UpperAlpha[k] = c]]

LowerChar(c) == IF c \in DOMAIN ToLower THEN ToLower[c] ELSE c

\* lower = (s) => (s || '').toLowerCase()
lower(s) == [k \in 1..Len(s) |-> LowerChar(s[k])]

RECURSIVE TrimStart(_)
TrimStart(s) ==
    IF s = <<>> THEN s
    ELSE IF IsWs(Head(s)) THEN TrimStart(Tail(s)) ELSE s

RECURSIVE TrimEnd(_)
TrimEnd(s) ==
    IF s = <<>> THEN s
    ELSE IF IsWs(s[Len(s)]) THEN TrimEnd(SubSeq(s, 1, Len(s) - 1)) ELSE s

\* String.prototype.trim
Trim(s) == TrimEnd(TrimStart(s))

\* last index of the maximal whitespace run that starts at i
RunEnd(s, i) ==
    CHOOSE j \in i..Len(s) :
        /\ \A k \in i..j : IsWs(s[k])
        /\ (j = Len(s) \/ ~IsWs(s[j + 1]))

RECURSIVE ReplBreaks(_, _)
ReplBreaks(s, i) ==
    IF i > Len(s) THEN <<>>
    ELSE IF IsWs(s[i])
         THEN LET j == RunEnd(s, i)
              IN (IF \E k \in i..j : s[k] \in LineBreaks
                  THEN <<" ">>
                  ELSE SubSeq(s, i, j)) \o ReplBreaks(s, j + 1)
         ELSE <<s[i]>> \o ReplBreaks(s, i + 1)

\* .replace(/\s*(?:\r\n|\r|\n|\u2028|\u2029)+\s*/g, ' ')
CollapseBreaks(s) == ReplBreaks(s, 1)

RECURSIVE ReplSpaces(_, _)
ReplSpaces(s, i) ==
    IF i > Len(s) THEN <<>>
    ELSE IF IsWs(s[i])
         THEN LET j == RunEnd(s, i)
              IN (IF j > i THEN <<" ">> ELSE <<s[i]>>) \o ReplSpaces(s, j + 1)
         ELSE <<s[i]>> \o ReplSpaces(s, i + 1)

\* .replace(/\s{2,}/g, ' ')
CollapseSpaces(s) == ReplSpaces(s, 1)

RECURSIVE SplitWsSplit(_)
SplitWsSplit(s) ==
    IF \A k \in 1..Len(s) : ~IsWs(s[k]) THEN <<s>>
    ELSE LET i == CHOOSE k \in 1..Len(s) :
                      IsWs(s[k]) /\ \A m \in 1..(k - 1) : ~IsWs(s[m])
             j == RunEnd(s, i)
         IN <<SubSeq(s, 1, i - 1)>> \o SplitWsSplit(SubSeq(s, j + 1, Len(s)))

RECURSIVE SplitOnSpace(_)
SplitOnSpace(s) ==
    IF \A k \in 1..Len(s) : s[k] # " " THEN <<s>>
    ELSE LET i == CHOOSE k \in 1..Len(s) :
                      s[k] = " " /\ \A m \in 1..(k - 1) : s[m] # " "
         IN <<SubSeq(s, 1, i - 1)>> \o SplitOnSpace(SubSeq(s, i + 1, Len(s)))

\* text.split(/\s+/)
SplitWs(s) == SplitWsSplit(s)

RECURSIVE JoinWith(_, _)
JoinWith(parts, sep) ==
    IF parts = <<>> THEN <<>>
    ELSE IF Len(parts) = 1 THEN parts[1]
    ELSE parts[1] \o sep \o JoinWith(Tail(parts), sep)

RECURSIVE ReplSpaceBefore(_, _)
ReplSpaceBefore(s, i) ==
    IF i > Len(s) THEN <<>>
    ELSE IF IsWs(s[i])
         THEN LET j == RunEnd(s, i)
              IN (IF j < Len(s) /\ s[j + 1] \in PunctChars
                  THEN <<>>
                  ELSE SubSeq(s, i, j)) \o ReplSpaceBefore(s, j + 1)
         ELSE <<s[i]>> \o ReplSpaceBefore(s, i + 1)

\* .replace(/\s+([.,!?;:])/g, '$1')
NoSpaceBefore(s) == ReplSpaceBefore(s, 1)

RECURSIVE ReplSpaceAfter(_, _)
ReplSpaceAfter(s, i) ==
    IF i > Len(s) THEN <<>>
    ELSE IF /\ s[i] \in PunctChars
            /\ i < Len(s)
            /\ s[i + 1] \notin (WS \cup ClosersAndQuotes)
         THEN <<s[i], " ", s[i + 1]>> \o ReplSpaceAfter(s, i + 2)
         ELSE <<s[i]>> \o ReplSpaceAfter(s, i + 1)

\* .replace(/([.,!?;:])([^\s"'\)\]}])/g, '$1 $2')
SpaceAfter(s) == ReplSpaceAfter(s, 1)

\* String.prototype.endsWith, for a one-character symbol
EndsWith(s, symbol) == s # <<>> /\ s[Len(s)] = symbol

(***************************************************************************)
(* normalizeTranscript                                                     *)
(***************************************************************************)
OneWord == {W_period, W_comma, W_colon, W_semicolon}

\* map = { period: '.', comma: ',', colon: ':', semicolon: ';' }
SymbolOf(curL) ==
    CASE curL = W_period -> "."
      [] curL = W_comma -> ","
      [] curL = W_colon -> ":"
      [] curL = W_semicolon -> ";"

\* step 1: condense newlines, collapse spaces, trim
Condense(text) == Trim(CollapseSpaces(CollapseBreaks(text)))

\* a tokenizer that splits on the space character only
Tokenize_spaceOnly(text) == SplitOnSpace(text)

\* const toks = text.split(/\s+/)
Tokenize(text) == SplitWs(text)

\* an attach without the endsWith test
attach_always(out, symbol) ==
    IF out # <<>>
    THEN [out EXCEPT ![Len(out)] = @ \o <<symbol>>]
    ELSE <<<<symbol>>>>

attach(out, symbol) ==
    IF out # <<>>
    THEN IF ~EndsWith(out[Len(out)], symbol)
         THEN [out EXCEPT ![Len(out)] = @ \o <<symbol>>]
         ELSE out
    ELSE <<<<symbol>>>>

\* an escape that forgets out.pop()
dropLiteralAndKeep_noPop(out, word) == Append(out, word)

dropLiteralAndKeep(out, word) ==
    Append(SubSeq(out, 1, Len(out) - 1), word)

prevIsLiteral(out) ==
    lower(IF out # <<>> THEN out[Len(out)] ELSE <<>>) = W_literal

\* peek(i + 1), lower-cased; lower(null) is ''
nextL(toks, i) == IF i + 1 <= Len(toks) THEN lower(toks[i + 1]) ELSE <<>>

IsQuestionMark(toks, i) ==
    lower(toks[i]) = W_question /\ nextL(toks, i) = W_mark

IsExclamation(toks, i) ==
    lower(toks[i]) = W_exclamation /\ nextL(toks, i) \in {W_mark, W_point}

IsOneWord(toks, i) == lower(toks[i]) \in OneWord

\* one iteration of the token loop: the new out and the next value of i
TokenStep(toks, out, i) ==
    LET cur == toks[i]
    IN IF IsQuestionMark(toks, i)
       THEN IF prevIsLiteral(out)
            THEN [out |-> Append(dropLiteralAndKeep(out, cur), toks[i + 1]), i |-> i + 2]
            ELSE [out |-> attach(out, "?"), i |-> i + 2]
       ELSE IF IsExclamation(toks, i)
       THEN IF prevIsLiteral(out)
            THEN [out |-> Append(dropLiteralAndKeep(out, cur), toks[i + 1]), i |-> i + 2]
            ELSE [out |-> attach(out, "!"), i |-> i + 2]
       ELSE IF IsOneWord(toks, i)
       THEN IF prevIsLiteral(out)
            THEN [out |-> dropLiteralAndKeep(out, cur), i |-> i + 1]
            ELSE [out |-> attach(out, SymbolOf(lower(cur))), i |-> i + 1]
       ELSE [out |-> Append(out, cur), i |-> i + 1]

RECURSIVE TokenLoop(_, _, _)
TokenLoop(toks, out, i) ==
    IF i > Len(toks) THEN out
    ELSE LET r == TokenStep(toks, out, i) IN TokenLoop(toks, r.out, r.i)

\* step 3: rebuild and tidy spacing around punctuation
Tidy(out) ==
    LET normalized ==
            Trim(CollapseSpaces(SpaceAfter(NoSpaceBefore(JoinWith(out, <<" ">>)))))
    IN IF normalized # <<>> THEN normalized ELSE Placeholder

normalizeTranscript(text) ==
    LET t == Trim(text)
    IN IF t = <<>> THEN Placeholder
       ELSE Tidy(TokenLoop(Tokenize(Condense(t)), <<>>, 1))

W_at == <<"a", "t">>
W_helloDot == W_hello \o <<".">>
W_314 == <<"3", ".", "1", "4">>
W_1030 == <<"1", "0", ":", "3", "0">>

(***************************************************************************)
(* Normalizer inputs: up to MaxToks vocabulary tokens, laid out with one   *)
(* of the whitespace styles, plus the documented examples.                 *)
(***************************************************************************)
Vocab == {W_hi, W_hiDot, W_literal, W_Literal, W_comma, W_Period,
          W_question, W_mark, W_exclamation}

Styles ==
    { [lead |-> <<>>,           sep |-> <<" ">>,                 trail |-> <<>>],
      [lead |-> <<" ", "\n">>,  sep |-> <<"\r", "\n">>,          trail |-> <<"\t">>],
      [lead |-> <<"\t">>,       sep |-> <<"\t">>,                trail |-> <<"PS">>],
      [lead |-> <<>>,           sep |-> <<" ", "LS", " ", " ">>, trail |-> <<" ", " ">>] }

Layout(ts, st) == st.lead \o JoinWith(ts, st.sep) \o st.trail

TokSeqs == UNION { [1..n -> Vocab] : n \in 0..MaxToks }

Ex_basic == <<W_hello, W_comma, W_how, W_are, W_you, W_question, W_mark>>
Ex_escape == <<W_say, W_literal, W_comma, W_now>>
Ex_twoWord == <<W_great, W_exclamation, W_point>>
Ex_semicolon == <<W_hi, W_semicolon, W_hi, W_colon>>

Ex_numbers == <<W_at, W_314, W_1030>>
Ex_run == <<W_literal, W_comma, W_period, W_comma>>
Ex_marks == <<W_hi, W_question, W_mark, W_exclamation, W_mark>>

Ex_twice == <<W_hello, W_period, W_period>>
Ex_already == <<W_helloDot, W_period>>

Examples == {Ex_basic, Ex_escape, Ex_twoWord, Ex_semicolon, <<Placeholder>>,
             Ex_numbers, Ex_run, Ex_marks, Ex_twice, Ex_already}

NormInputs ==
    { Layout(ts, st) : ts \in TokSeqs, st \in Styles }
        \cup { JoinWith(ts, <<" ">>) : ts \in Examples }

(***************************************************************************)
(* normalizeTranscript as a state machine                                  *)
(***************************************************************************)
InitNormVars ==
    /\ nin \in NormInputs
    /\ nstage = "start"
    /\ ntoks = <<>>
    /\ nout = <<>>
    /\ ni = 1
    /\ nres = <<>>
    /\ nres2 = <<>>

\* lines 66-76: trim, early return, step 1, split
N_Prepare ==
    /\ nstage = "start"
    /\ LET t == Trim(nin)
       IN IF t = <<>>
          THEN /\ nstage' = "done"
               /\ nres' = Placeholder
               /\ UNCHANGED <<ntoks, nout, ni>>
          ELSE /\ nstage' = "loop"
               /\ ntoks' = Tokenize(Condense(t))
               /\ nout' = <<>>
               /\ ni' = 1
               /\ UNCHANGED nres
    /\ UNCHANGED <<nin, nres2>>

\* lines 96-137: one iteration of the for loop
N_Token ==
    /\ nstage = "loop"
    /\ ni <= Len(ntoks)
    /\ LET r == TokenStep(ntoks, nout, ni)
       IN /\ nout' = r.out
          /\ ni' = r.i
    /\ UNCHANGED <<nin, nstage, ntoks, nres, nres2>>

\* lines 139-145
N_Tidy ==
    /\ nstage = "loop"
    /\ ni > Len(ntoks)
    /\ nres' = Tidy(nout)
    /\ nstage' = "done"
    /\ UNCHANGED <<nin, ntoks, nout, ni, nres2>>

\* the normalizer applied to its own output
N_Again ==
    /\ nstage = "done"
    /\ nres2' = normalizeTranscript(nres)
    /\ nstage' = "again"
    /\ UNCHANGED <<nin, ntoks, nout, ni, nres>>

IdleNorm ==
    /\ nin = <<>>
    /\ nstage = "idle"
    /\ ntoks = <<>>
    /\ nout = <<>>
    /\ ni = 1
    /\ nres = <<>>
    /\ nres2 = <<>>

NaN == -1

NoResult == [hasResults |-> FALSE, results |-> <<>>]

NoRequest == [kind |-> "none", model |-> "none"]

Inv == 1..NumInv

\* a run of the silence-detecting subprocess: what it wrote to stderr before
\* it closed, and whether it closed because the timer killed it
NoRun == [stderr |-> <<>>, killed |-> FALSE]

\* no file under a path of /tmp, no bytes read
Absent == <<>>

\* held: what has been under the path the pending call reads, from the
\* moment of the call on; cut: the path the pending download or ffmpeg writes
\* to has been unlinked since the call; audio: the bytes fs.readFile returned
IdleInv ==
    [pc |-> "idle", handler |-> "none", name |-> <<>>, seconds |-> NaN,
     longPause |-> FALSE, useSync |-> FALSE, model |-> "none", req |-> NoRequest,
     resp |-> NoResult, text |-> <<>>, key |-> <<>>, threw |-> FALSE,
     err |-> "none", wrote |-> "none", inst |-> 0, pauseRun |-> NoRun,
     gen |-> 0, audioGen |-> 0, removed |-> <<>>, held |-> {},
     cut |-> FALSE, audio |-> Absent]

EmptyBucket == [k \in {} |-> <<>>]

\* function instances, each with its own in-memory /tmp
Instances == Inv

NoFiles == [p \in {} |-> <<>>]

\* no object of the upload bucket has been uploaded a second time
FirstOnly == [n \in {} |-> 1]

IdleHandlers ==
    /\ deploy = "createOnly"
    /\ precond = FALSE
    /\ ceiling = 0
    /\ inv = [i \in Inv |-> IdleInv]
    /\ txt = EmptyBucket
    /\ flac = {}
    /\ live = FirstOnly
    /\ fs = [n \in Instances |-> NoFiles]

IdleExt ==
    /\ xres = [hasResults |-> FALSE, results |-> <<>>]
    /\ xstage = "idle"
    /\ xtextS = <<>>
    /\ xtextJ = <<>>
    /\ xwS = <<>>
    /\ xwJ = <<>>

NextNorm ==
    \/ N_Prepare /\ UNCHANGED <<extVars, hVars>>
    \/ N_Token /\ UNCHANGED <<extVars, hVars>>
    \/ N_Tidy /\ UNCHANGED <<extVars, hVars>>
    \/ N_Again /\ UNCHANGED <<extVars, hVars>>

InitNorm == InitNormVars /\ IdleExt /\ IdleHandlers

SpecNorm == InitNorm /\ [][NextNorm]_vars

NormReturned == nstage \in {"done", "again"}

(***************************************************************************)
(* Transcript extraction                                                   *)
(*                                                                         *)
(* A recognition result is [hasResults, results]; a segment is             *)
(* [hasAlts, alternatives]; an alternative is [hasT, transcript].  The     *)
(* has* flags model a field that is missing from the response or JSON.     *)
(***************************************************************************)
BlankLine == <<"\n", "\n">>

T_padded == <<" ">> \o W_hi \o <<" ">> \o W_comma \o <<"\n">>

Transcripts == {<<>>, <<" ">>, W_hi, T_padded}

Alts ==
    {[hasT |-> FALSE, transcript |-> <<>>]}
        \cup {[hasT |-> TRUE, transcript |-> t] : t \in Transcripts}

\* alternatives after the first: absent transcript, or one unlike any first
AltsRest ==
    {[hasT |-> FALSE, transcript |-> <<>>], [hasT |-> TRUE, transcript |-> W_hiDot]}

AltSeqs(n) == {a \in [1..n -> Alts \cup AltsRest] :
                  /\ n >= 1 => a[1] \in Alts
                  /\ \A k \in 2..n : a[k] \in AltsRest}

Segments ==
    {[hasAlts |-> FALSE, alternatives |-> <<>>]}
        \cup {[hasAlts |-> TRUE, alternatives |-> a] :
                 a \in UNION {AltSeqs(n) : n \in 0..MaxAlts}}

Results ==
    {[hasResults |-> FALSE, results |-> <<>>]}
        \cup {[hasResults |-> TRUE, results |-> r] :
                 r \in UNION {[1..n -> Segments] : n \in 0..MaxSegs}}

\* alt0?.transcript?.trim(), '' standing for undefined (both are falsy)
TrimmedTranscript(alts) ==
    IF alts # <<>> /\ alts[1].hasT THEN Trim(alts[1].transcript) ELSE <<>>

\* (r.alternatives && r.alternatives[0]) || null, as the list holding alt0
Alt0Sync(r) ==
    IF r.hasAlts /\ r.alternatives # <<>> THEN <<r.alternatives[1]>> ELSE <<>>

\* an extractor that takes any alternative with a non-blank transcript
Alt0Json_anyNonBlank(r) ==
    IF r.hasAlts
    THEN SelectSeq(r.alternatives, LAMBDA a : a.hasT /\ Trim(a.transcript) # <<>>)
    ELSE <<>>

\* Array.isArray(r?.alternatives) ? r.alternatives[0] : null
Alt0Json(r) ==
    IF r.hasAlts /\ Len(r.alternatives) >= 1 THEN <<r.alternatives[1]>> ELSE <<>>

RECURSIVE PartsSync(_, _, _)
PartsSync(results, i, parts) ==
    IF i > Len(results) THEN parts
    ELSE LET t == TrimmedTranscript(Alt0Sync(results[i]))
         IN PartsSync(results, i + 1, IF t # <<>> THEN Append(parts, t) ELSE parts)

RECURSIVE PartsJson(_, _, _)
PartsJson(results, i, parts) ==
    IF i > Len(results) THEN parts
    ELSE LET t == TrimmedTranscript(Alt0Json(results[i]))
         IN PartsJson(results, i + 1, IF t # <<>> THEN Append(parts, t) ELSE parts)

\* onAudioUploaded: for (const r of (resp?.results || [])) ...; join; trim
ExtractSync(resp) ==
    Trim(JoinWith(PartsSync(IF resp.hasResults THEN resp.results ELSE <<>>, 1, <<>>),
                  BlankLine))

\* onAudioTranscribed: results = Array.isArray(json?.results) ? ... ; join; trim
ExtractJson(json) ==
    Trim(JoinWith(PartsJson(IF json.hasResults THEN json.results ELSE <<>>, 1, <<>>),
                  BlankLine))

\* a handler that writes the extracted text as it is
TextSync_noPlaceholder(text) == text

\* onAudioUploaded: if (!text || text.length <= 0) text = "[Empty transcript]"
TextSync(text) == IF text = <<>> THEN Placeholder ELSE text

\* a handler that leaves an empty extraction empty
TextJson_noPlaceholder(text) == IF text = <<>> THEN <<>> ELSE normalizeTranscript(text)

\* onAudioTranscribed: placeholder, else normalizeTranscript(text)
TextJson(text) == IF text = <<>> THEN Placeholder ELSE normalizeTranscript(text)

InitExtVars ==
    /\ xres \in Results
    /\ xstage = "start"
    /\ xtextS = <<>>
    /\ xtextJ = <<>>
    /\ xwS = <<>>
    /\ xwJ = <<>>

X_ExtractSync ==
    /\ xstage = "start"
    /\ xtextS' = ExtractSync(xres)
    /\ xstage' = "syncText"
    /\ UNCHANGED <<xres, xtextJ, xwS, xwJ>>

X_TextSync ==
    /\ xstage = "syncText"
    /\ xwS' = TextSync(xtextS)
    /\ xstage' = "syncDone"
    /\ UNCHANGED <<xres, xtextS, xtextJ, xwJ>>

X_ExtractJson ==
    /\ xstage = "syncDone"
    /\ xtextJ' = ExtractJson(xres)
    /\ xstage' = "jsonText"
    /\ UNCHANGED <<xres, xtextS, xwS, xwJ>>

X_TextJson ==
    /\ xstage = "jsonText"
    /\ xwJ' = TextJson(xtextJ)
    /\ xstage' = "done"
    /\ UNCHANGED <<xres, xtextS, xtextJ, xwS>>

NextExt ==
    \/ X_ExtractSync /\ UNCHANGED <<normVars, hVars>>
    \/ X_TextSync /\ UNCHANGED <<normVars, hVars>>
    \/ X_ExtractJson /\ UNCHANGED <<normVars, hVars>>
    \/ X_TextJson /\ UNCHANGED <<normVars, hVars>>

InitExt == InitExtVars /\ IdleNorm /\ IdleHandlers

SpecExt == InitExt /\ [][NextExt]_vars

(***************************************************************************)
(* Object names                                                            *)
(***************************************************************************)
Digits == {"0", "1", "2", "3", "4", "5", "6", "7", "8", "9"}

S_json == <<".", "j", "s", "o", "n">>
S_txt == <<".", "t", "x", "t">>
S_flac == <<".", "f", "l", "a", "c">>
S_transcript == <<"_", "t", "r", "a", "n", "s", "c", "r", "i", "p", "t">>
S_result == <<"_", "r", "e", "s", "u", "l", "t", "-">>
S_tmpDir == <<"t", "m", "p", "/">>
S_partial == <<".", "p", "a", "r", "t", "i", "a", "l">>
S_tmpSlash == <<"/", "t", "m", "p", "/">>
S_m4a == <<".", "m", "4", "a">>

SetMax(S) == CHOOSE x \in S : \A y \in S : y <= x
SetMin(S) == CHOOSE x \in S : \A y \in S : x <= y

StartsWithAt(s, p, pre) ==
    p + Len(pre) - 1 <= Len(s) /\ SubSeq(s, p, p + Len(pre) - 1) = pre

EndsWithSeq(s, suf) ==
    Len(s) >= Len(suf) /\ SubSeq(s, Len(s) - Len(suf) + 1, Len(s)) = suf

\* path.basename, for a name that does not end with "/"
basename(p) ==
    LET slashes == {k \in 1..Len(p) : p[k] = "/"}
    IN IF slashes = {} THEN p ELSE SubSeq(p, SetMax(slashes) + 1, Len(p))

\* s.replace(/\.[^.]+$/, rep)
ReplaceExt(s, rep) ==
    LET dots == {k \in 1..Len(s) : s[k] = "."}
    IN IF dots = {} \/ SetMax(dots) = Len(s) THEN s
       ELSE SubSeq(s, 1, SetMax(dots) - 1) \o rep

\* const base = path.basename(objectName).replace(/\.[^.]+$/, '')
BaseOf(objectName) == ReplaceExt(basename(objectName), <<>>)

\* const outName = `${base}.txt`
OutNameOf(objectName) == BaseOf(objectName) \o S_txt

\* `tmp/${outName}.partial`
TmpNameOf(objectName) == S_tmpDir \o OutNameOf(objectName) \o S_partial

\* const tmpIn = `/tmp/${base}.m4a`
TmpInOf(objectName) == S_tmpSlash \o BaseOf(objectName) \o S_m4a

\* const tmpOut = `/tmp/${base}.flac`
TmpOutOf(objectName) == S_tmpSlash \o BaseOf(objectName) \o S_flac

\* const flacKey = objectName.replace(/\.[^.]+$/, '.flac')
FlacKeyOf(objectName) == ReplaceExt(objectName, S_flac)

\* the same pattern without the i flag
JsonSuffixAt_caseSensitive(s, p) ==
    /\ EndsWithSeq(s, S_json)
    /\ \/ p = Len(s) - 4
       \/ /\ StartsWithAt(s, p, S_transcript)
          /\ p + 11 <= Len(s) - 4
          /\ \A k \in (p + 11)..(Len(s) - 5) : s[k] \notin LineBreaks

\* /(_transcript.*)?\.json$/i matches s from position p
JsonSuffixAt(s, p) ==
    /\ EndsWithSeq(lower(s), S_json)
    /\ \/ p = Len(s) - 4
       \/ /\ StartsWithAt(lower(s), p, S_transcript)
          /\ p + 11 <= Len(s) - 4
          /\ \A k \in (p + 11)..(Len(s) - 5) : s[k] \notin LineBreaks

\* /(_result-\d+)$/i matches s from position p
ResultSuffixAt(s, p) ==
    /\ StartsWithAt(lower(s), p, S_result)
    /\ p + 8 <= Len(s)
    /\ \A k \in (p + 8)..Len(s) : s[k] \in Digits

StripAt(s, ps) == IF ps = {} THEN s ELSE SubSeq(s, 1, SetMin(ps) - 1)

jsonToTxtName(jsonName) ==
    LET n == Trim(jsonName)
        a == StripAt(n, {p \in 1..Len(n) : JsonSuffixAt(n, p)})
        cleanedBase == StripAt(a, {p \in 1..Len(a) : ResultSuffixAt(a, p)})
    IN cleanedBase \o S_txt

\* isSafeName: !n.startsWith('/') && !n.includes('..')
isSafeName(n) ==
    /\ ~(n # <<>> /\ n[1] = "/")
    /\ ~\E k \in 1..(Len(n) - 1) : n[k] = "." /\ n[k + 1] = "."

\* a handler without the extension test
IsJsonName_any(n) == TRUE

\* name.toLowerCase().endsWith('.json')
IsJsonName(n) == EndsWithSeq(lower(n), S_json)

Obj_a == <<"a", "/", "c", ".", "m", "4", "a">>
Obj_b == <<"b", "/", "c", ".", "m", "4", "a">>
Obj_d == <<"d", ".", "w", "a", "v">>
Json_c == <<"c", ".", "j", "s", "o", "n">>
Json_cr == <<"c", "_", "r", "e", "s", "u", "l", "t", "-", "1", "2", ".", "j", "s", "o", "n">>
Json_ct == <<"c", "_", "t", "r", "a", "n", "s", "c", "r", "i", "p", "t", "_", "9", "f",
             "_", "r", "e", "s", "u", "l", "t", "-", "2", ".", "J", "S", "O", "N">>
Txt_c == <<"c", ".", "t", "x", "t">>
Json_x == <<"x", ".", "j", "s", "o", "n">>

(***************************************************************************)
(* Routing and the object store                                            *)
(***************************************************************************)
SPEECH_MODEL_LONG == "latest_long"
SPEECH_MODEL_SHORT == "latest_short"
SPEECH_MODEL == "latest_long"

SYNC_MAX_SECONDS_pause == 59
SYNC_MAX_SECONDS_pinned == 30

Ceilings == {SYNC_MAX_SECONDS_pause, SYNC_MAX_SECONDS_pinned}

\* what probeDurationSec can resolve to: NaN, or h*3600 + min*60 + s
Durations == {NaN, 0} \cup Ceilings \cup {c + 1 : c \in Ceilings}

\* a test that takes an unknown duration for a number
IsFinite_any(seconds) == TRUE

\* Number.isFinite(seconds)
IsFinite(seconds) == seconds # NaN

\* a selector that keeps the ceiling itself off the sync path
UseSync_below(seconds, max) == IsFinite(seconds) /\ seconds < max

\* const useSync = Number.isFinite(seconds) && seconds <= SYNC_MAX_SECONDS
UseSync(seconds, max) == IsFinite(seconds) /\ seconds <= max

\* a sync path that always takes the short model
ModelForSync_short(longPause) == SPEECH_MODEL_SHORT

\* const modelForSync = longPause ? SPEECH_MODEL_LONG : SPEECH_MODEL_SHORT
ModelForSync(longPause) ==
    IF longPause THEN SPEECH_MODEL_LONG ELSE SPEECH_MODEL_SHORT

Put(store, k, v) ==
    [x \in (DOMAIN store) \cup {k} |-> IF x = k THEN v ELSE store[x]]

Remove(store, k) == [x \in (DOMAIN store) \ {k} |-> store[x]]

\* file.save(text, { resumable: false, contentType, metadata,
\* ifGenerationMatch: 0 }): the handlers pass the option among the top-level
\* options of save(), where the first revision passed preconditionOpts:
\* { ifGenerationMatch: 0 }.  The storage client is not part of the source.
\* A client that sends the option with the request (precond) creates the
\* object or fails with 412 when one exists; a client that reads the
\* precondition from preconditionOpts only writes the object whether or not
\* one exists.
Save(store, k, text) ==
    IF precond /\ k \in DOMAIN store
    THEN [ok |-> FALSE, store |-> store]
    ELSE [ok |-> TRUE, store |-> Put(store, k, text)]

R_hi ==
    [hasResults |-> TRUE,
     results |-> <<[hasAlts |-> TRUE,
                    alternatives |-> <<[hasT |-> TRUE, transcript |-> W_hi]>>]>>]
R_padded ==
    [hasResults |-> TRUE,
     results |-> <<[hasAlts |-> TRUE,
                    alternatives |-> <<[hasT |-> TRUE, transcript |-> T_padded]>>]>>]
R_none == [hasResults |-> TRUE, results |-> <<>>]

HandlerResults == {R_hi, R_padded, R_none}

\* the recognizer's JSON deposited under each name
JsonBody(name) ==
    IF name = Json_c THEN R_padded ELSE IF name = Json_cr THEN R_hi ELSE R_none

\* the bytes downloaded for a name: x.json holds text that is not JSON
JsonText(name) == [parses |-> name # Json_x, json |-> JsonBody(name)]

\* a parser that reads unparseable bytes as an object without results
JsonParse_lenient(body) == [ok |-> TRUE, json |-> body.json]

\* try { json = JSON.parse(buf.toString('utf8')); } catch (e) { ...; return; }
JsonParse(body) ==
    IF body.parses THEN [ok |-> TRUE, json |-> body.json]
    ELSE [ok |-> FALSE, json |-> NoResult]

(***************************************************************************)
(* onAudioUploaded.  `fails` is the set of outcomes the awaited call can   *)
(* have (TRUE: it rejects); the pause-detecting revision is deployed under *)
(* "createOnly", the generation-pinning revision under "tempPromote".      *)
(***************************************************************************)
Upd(i, r) == inv' = [inv EXCEPT ![i] = r]

\* a rejection that is dropped on the way out of the handler
Throw_swallowed(i) ==
    [inv[i] EXCEPT !.pc = "finally", !.err = inv[i].pc, !.held = {},
                   !.cut = FALSE]

\* an awaited call rejects inside try { ... } finally { ... }: the error,
\* named after the step that raised it, leaves the handler after the finally
Throw(i) ==
    [inv[i] EXCEPT !.pc = "finally", !.threw = TRUE, !.err = inv[i].pc,
                   !.held = {}, !.cut = FALSE]

\* the files of the instance that serves invocation i
Disk(i) == fs[inv[i].inst]

HasFile(i, p) == p \in DOMAIN Disk(i)

WriteFile(i, p, audio) == fs' = [fs EXCEPT ![inv[i].inst] = Put(@, p, audio)]

\* what is under path p of the instance now
Found(i, p) == IF HasFile(i, p) THEN Disk(i)[p] ELSE Absent

\* what the pending call of invocation i reads from p: the call opens p at
\* some moment between being made and settling, so it has the file as it was
\* at one of these moments
Seen(i, p) == inv[i].held \cup {Found(i, p)}

\* invocation i leaves content c under path p (Absent: fs.unlink(p)) when
\* changed holds: the pending calls of the other invocations of the instance
\* that read p may find c (ffprobe and both ffmpeg runs read tmpIn,
\* fs.readFile and upload read tmpOut), and an unlink takes the name away
\* from the file a pending call writes to p (the download writes tmpIn, the
\* transcoding ffmpeg writes tmpOut)
Touch(i, changed, p, c) ==
    [k \in Inv |->
       IF changed /\ k # i /\ inv[k].inst = inv[i].inst
       THEN LET reads == IF inv[k].pc \in {"probe", "pause", "transcode"}
                         THEN TmpInOf(inv[k].name)
                         ELSE IF inv[k].pc \in {"select", "readfile", "upload"}
                         THEN TmpOutOf(inv[k].name)
                         ELSE <<>>
                writes == IF inv[k].pc = "download" THEN TmpInOf(inv[k].name)
                          ELSE IF inv[k].pc = "transcode"
                          THEN TmpOutOf(inv[k].name)
                          ELSE <<>>
            IN [inv[k] EXCEPT
                  !.held = IF reads = p THEN @ \cup {c} ELSE @,
                  !.cut = @ \/ (c = Absent /\ writes = p)]
       ELSE inv[k]]

\* an unlink whose failure leaves the finally block
safeUnlink_throwing(files, p) ==
    [files |-> Remove(files, p), threw |-> p \notin DOMAIN files]

\* async function safeUnlink(p){ try{ await fs.unlink(p);}catch{} }
safeUnlink(files, p) == [files |-> Remove(files, p), threw |-> FALSE]

\* the live generation of an object of the upload bucket
LiveOf(n) == IF n \in DOMAIN live THEN live[n] ELSE 1

\* storage.bucket(bucket).file(objectName, { generation }) in the pinned
\* revision, storage.bucket(bucket).file(objectName) in the other one: the
\* generation a download through the reference reads
fileRef(generation, current) ==
    IF deploy = "tempPromote" THEN generation ELSE current

\* a pinned download of a generation that has been replaced fails unless the
\* bucket keeps noncurrent versions
GenerationGone(generation, current) ==
    IF deploy = "tempPromote" /\ generation # current THEN {TRUE} ELSE {}

\* a new generation of an object is uploaded
G_Upload(names) ==
    /\ \E n \in names :
         /\ LiveOf(n) < MaxGen
         /\ live' = Put(live, n, LiveOf(n) + 1)
    /\ UNCHANGED <<deploy, precond, ceiling, inv, txt, flac, fs>>

\* the event is delivered to an instance; guards, names, then await download
U_Start(i, names, insts) ==
    /\ inv[i].pc = "idle"
    /\ \E n \in names, m \in insts : \E g \in 1..LiveOf(n) :
         Upd(i, [inv[i] EXCEPT !.pc = "download", !.handler = "upload",
                               !.name = n, !.key = OutNameOf(n), !.inst = m,
                               !.gen = g, !.cut = FALSE])
    /\ UNCHANGED <<live, deploy, precond, ceiling, txt, flac, fs>>

\* download({ destination: tmpIn }) settles; a failed download may leave a
\* partly written destination file, and a download that opened tmpIn when it
\* was called leaves nothing under the path once the path has been unlinked;
\* on success ffprobe is spawned on tmpIn
U_Download(i, fails) ==
    /\ inv[i].pc = "download"
    /\ \E f \in fails \cup GenerationGone(inv[i].gen, LiveOf(inv[i].name)),
          left \in BOOLEAN :
         /\ f \/ left \/ inv[i].cut
         /\ inv' = [Touch(i, left, TmpInOf(inv[i].name), inv[i].name)
                     EXCEPT ![i] =
                       IF f THEN Throw(i)
                       ELSE [inv[i] EXCEPT
                               !.pc = "probe",
                               !.audioGen = fileRef(inv[i].gen, LiveOf(inv[i].name)),
                               !.cut = FALSE,
                               !.held = {IF left THEN inv[i].name
                                         ELSE Found(i, TmpInOf(inv[i].name))}]]
         /\ IF left THEN WriteFile(i, TmpInOf(inv[i].name), inv[i].name)
            ELSE UNCHANGED fs
    /\ UNCHANGED <<live, deploy, precond, ceiling, txt, flac>>

\* probeDurationSec resolves, NaN when ffprobe had no input to read;
\* hasLongPause is awaited only for a finite duration, and the next
\* subprocess is spawned on tmpIn
U_Probe(i, durs) ==
    /\ inv[i].pc = "probe"
    /\ \E s \in Seen(i, TmpInOf(inv[i].name)) :
         \E d \in IF s # Absent THEN durs ELSE {NaN} :
           Upd(i, [inv[i] EXCEPT
                     !.seconds = d,
                     !.longPause = FALSE,
                     !.held = {Found(i, TmpInOf(inv[i].name))},
                     !.pc = IF deploy = "createOnly" /\ IsFinite(d)
                            THEN "pause" ELSE "transcode"])
    /\ UNCHANGED <<live, deploy, precond, ceiling, txt, flac, fs>>

S_silenceStart ==
    <<"s", "i", "l", "e", "n", "c", "e", "_", "s", "t", "a", "r", "t", ":">>

E_quiet == <<"s", "i", "z", "e", "=", "0">>
E_silence == S_silenceStart \o <<" ", "1", ".", "5">>
E_upper == <<"S", "I", "L", "E", "N", "C", "E", "_", "S", "T", "A", "R", "T", ":", "2">>
E_noDigit == S_silenceStart \o <<" ", "x">>

StderrSamples == {E_quiet, E_silence, E_upper, E_noDigit}

PauseRuns == [stderr : StderrSamples, killed : BOOLEAN]

QuietRun == [stderr |-> E_quiet, killed |-> FALSE]

\* /silence_start:\s*\d+(\.\d+)?/i.test(stderr)
HasSilenceStart(stderr) ==
    \E p \in 1..Len(stderr) :
       /\ StartsWithAt(lower(stderr), p, S_silenceStart)
       /\ \E q \in (p + Len(S_silenceStart))..Len(stderr) :
             /\ stderr[q] \in Digits
             /\ \A k \in (p + Len(S_silenceStart))..(q - 1) : IsWs(stderr[k])

\* hasLongPause: on 'close', resolve with the regex test on what stderr
\* collected; the 15 s timer only kills the subprocess
hasLongPause(run) == HasSilenceStart(run.stderr)

\* hasLongPause resolves; without its input file ffmpeg reports no silence;
\* the transcoding ffmpeg is spawned on tmpIn
U_Pause(i, runs) ==
    /\ inv[i].pc = "pause"
    /\ \E s \in Seen(i, TmpInOf(inv[i].name)) :
         \E run \in IF s # Absent THEN runs ELSE {QuietRun} :
           Upd(i, [inv[i] EXCEPT !.longPause = hasLongPause(run),
                                 !.pauseRun = run,
                                 !.held = {Found(i, TmpInOf(inv[i].name))},
                                 !.pc = "transcode"])
    /\ UNCHANGED <<live, deploy, precond, ceiling, txt, flac, fs>>

\* a runner that resolves whatever the exit code
runFfmpeg_ignoreExit(i, exit0) ==
    [inv[i] EXCEPT !.pc = "select",
                   !.err = IF exit0 THEN inv[i].err ELSE "transcode"]

\* p.on('close', c => c === 0 ? res() : rej(new Error(...))), awaited in try
runFfmpeg(i, exit0) ==
    IF exit0 THEN [inv[i] EXCEPT !.pc = "select"] ELSE Throw(i)

\* ffmpeg -y -i tmpIn ... tmpOut exits; it fails when it had no tmpIn to
\* read, a failed run may leave a partly written tmpOut, and a run whose
\* tmpOut has been unlinked since it was spawned may exit 0 and leave nothing
\* under the path; after exit 0 the handler goes on, without returning to
\* the event loop, to the call that opens tmpOut (fs.readFile or upload)
U_Transcode(i, fails) ==
    /\ inv[i].pc = "transcode"
    /\ \E s \in Seen(i, TmpInOf(inv[i].name)) :
         \E f \in IF s # Absent THEN fails ELSE {TRUE}, left \in BOOLEAN :
            /\ f \/ left \/ inv[i].cut
            /\ s = Absent => ~left
            /\ LET r == runFfmpeg(i, ~f)
               IN inv' = [Touch(i, left, TmpOutOf(inv[i].name), s)
                           EXCEPT ![i] =
                             [r EXCEPT
                                !.cut = FALSE,
                                !.held = IF r.pc = "finally" THEN {}
                                         ELSE {IF left THEN s
                                               ELSE Found(i, TmpOutOf(inv[i].name))}]]
            /\ IF left THEN WriteFile(i, TmpOutOf(inv[i].name), s)
               ELSE UNCHANGED fs
    /\ UNCHANGED <<live, deploy, precond, ceiling, txt, flac>>

U_Select(i) ==
    /\ inv[i].pc = "select"
    /\ LET sync == UseSync(inv[i].seconds, ceiling)
       IN Upd(i, [inv[i] EXCEPT
                    !.useSync = sync,
                    !.model = IF deploy = "createOnly"
                              THEN IF sync THEN ModelForSync(inv[i].longPause)
                                   ELSE SPEECH_MODEL_LONG
                              ELSE SPEECH_MODEL,
                    !.pc = IF sync THEN "readfile" ELSE "upload"])
    /\ UNCHANGED <<live, deploy, precond, ceiling, txt, flac, fs>>

\* await fs.readFile(tmpOut) settles: it rejects when it had no file to
\* read, else the request is built from the bytes and speech.recognize is
\* called
U_ReadFile(i) ==
    /\ inv[i].pc = "readfile"
    /\ \E s \in Seen(i, TmpOutOf(inv[i].name)) :
         Upd(i, IF s = Absent
                THEN [Throw(i) EXCEPT !.err = "readFile"]
                ELSE [inv[i] EXCEPT
                        !.audio = s,
                        !.req = [kind |-> "recognize", model |-> inv[i].model],
                        !.held = {},
                        !.pc = "recognize"])
    /\ UNCHANGED <<live, deploy, precond, ceiling, txt, flac, fs>>

\* speech.recognize settles; on success extract the text and go on to write
U_Recognize(i, fails, results) ==
    /\ inv[i].pc = "recognize"
    /\ \E f \in fails :
         IF f
         THEN Upd(i, Throw(i))
         ELSE \E resp \in results :
                Upd(i, [inv[i] EXCEPT
                          !.resp = resp,
                          !.text = TextSync(ExtractSync(resp)),
                          !.pc = IF deploy = "createOnly"
                                 THEN "write" ELSE "tmpsave"])
    /\ UNCHANGED <<live, deploy, precond, ceiling, txt, flac, fs>>

\* await save(text, { ..., ifGenerationMatch: 0 }) of the final object; a
\* 412 leaves the handler
U_Write(i, fails) ==
    /\ inv[i].pc = "write"
    /\ \E f \in fails :
         IF f
         THEN Upd(i, Throw(i)) /\ UNCHANGED txt
         ELSE LET r == Save(txt, inv[i].key, inv[i].text)
              IN /\ txt' = r.store
                 /\ Upd(i, IF r.ok
                           THEN [inv[i] EXCEPT !.pc = "finally", !.wrote = "ok"]
                           ELSE [Throw(i) EXCEPT !.wrote = "exists"])
    /\ UNCHANGED <<live, deploy, precond, ceiling, flac, fs>>

\* await tmpTxt.save(text, { ..., ifGenerationMatch: 0 }) of
\* tmp/<outName>.partial; a 412 leaves the handler
U_TmpSave(i, fails) ==
    /\ inv[i].pc = "tmpsave"
    /\ \E f \in fails :
         IF f
         THEN Upd(i, Throw(i)) /\ UNCHANGED txt
         ELSE LET r == Save(txt, TmpNameOf(inv[i].name), inv[i].text)
              IN /\ txt' = r.store
                 /\ Upd(i, IF r.ok
                           THEN [inv[i] EXCEPT !.pc = "deleteold"]
                           ELSE [Throw(i) EXCEPT !.wrote = "exists"])
    /\ UNCHANGED <<live, deploy, precond, ceiling, flac, fs>>

\* try { await finalFile.delete(); } catch { /* ignore */ }
U_DeleteOld(i, fails) ==
    /\ inv[i].pc = "deleteold"
    /\ \E f \in fails :
         /\ txt' = IF f THEN txt ELSE Remove(txt, inv[i].key)
         /\ Upd(i, [inv[i] EXCEPT
                      !.pc = "promote",
                      !.removed = IF ~f /\ inv[i].key \in DOMAIN txt
                                  THEN txt[inv[i].key] ELSE <<>>])
    /\ UNCHANGED <<live, deploy, precond, ceiling, flac, fs>>

\* tmpTxt.copy(finalFile)
U_Promote(i, fails) ==
    /\ inv[i].pc = "promote"
    /\ \E f \in fails :
         IF f \/ TmpNameOf(inv[i].name) \notin DOMAIN txt
         THEN Upd(i, Throw(i)) /\ UNCHANGED txt
         ELSE /\ txt' = Put(txt, inv[i].key, txt[TmpNameOf(inv[i].name)])
              /\ Upd(i, [inv[i] EXCEPT !.pc = "cleanup", !.wrote = "ok"])
    /\ UNCHANGED <<live, deploy, precond, ceiling, flac, fs>>

\* try { await tmpTxt.delete(); } catch { /* ignore */ }
U_Cleanup(i, fails) ==
    /\ inv[i].pc = "cleanup"
    /\ \E f \in fails :
         txt' = IF f THEN txt ELSE Remove(txt, TmpNameOf(inv[i].name))
    /\ Upd(i, [inv[i] EXCEPT !.pc = "finally"])
    /\ UNCHANGED <<live, deploy, precond, ceiling, flac, fs>>

\* upload(tmpOut, { destination: flacKey }) settles; it rejects when it had
\* no file to send
U_Upload(i, fails) ==
    /\ inv[i].pc = "upload"
    /\ \E s \in Seen(i, TmpOutOf(inv[i].name)), f \in fails :
         IF f \/ s = Absent
         THEN Upd(i, Throw(i)) /\ UNCHANGED flac
         ELSE /\ flac' = flac \cup {FlacKeyOf(inv[i].name)}
              /\ Upd(i, [inv[i] EXCEPT !.pc = "batch", !.held = {}])
    /\ UNCHANGED <<live, deploy, precond, ceiling, txt, fs>>

\* a batch start whose rejection leaves the handler
BatchStart_rethrow(r, f) ==
    [r EXCEPT !.req = [kind |-> IF f THEN "batchRecognizeFailed"
                                ELSE "batchRecognize",
                       model |-> r.model],
              !.err = IF f THEN "batch" ELSE r.err,
              !.threw = f,
              !.pc = "finally"]

\* try { await speech.batchRecognize(...) } catch (e) { console.error; return; }
BatchStart(r, f) ==
    [r EXCEPT !.req = [kind |-> IF f THEN "batchRecognizeFailed"
                                ELSE "batchRecognize",
                       model |-> r.model],
              !.err = IF f THEN "batch" ELSE r.err,
              !.pc = "finally"]

\* speech.batchRecognize settles; a rejection is logged and swallowed
U_Batch(i, fails) ==
    /\ inv[i].pc = "batch"
    /\ \E f \in fails : Upd(i, BatchStart(inv[i], f))
    /\ UNCHANGED <<live, deploy, precond, ceiling, txt, flac, fs>>

\* finally { await safeUnlink(tmpIn); ... }: the first unlink settles and
\* the second one is called
U_Finally(i) ==
    /\ inv[i].pc = "finally"
    /\ LET p == TmpInOf(inv[i].name)
           u1 == safeUnlink(Disk(i), p)
       IN /\ fs' = [fs EXCEPT ![inv[i].inst] = u1.files]
          /\ inv' = [Touch(i, TRUE, p, Absent) EXCEPT ![i] =
                       IF u1.threw
                       THEN [inv[i] EXCEPT !.pc = "done", !.threw = TRUE]
                       ELSE [inv[i] EXCEPT !.pc = "unlinkOut"]]
    /\ UNCHANGED <<live, deploy, precond, ceiling, txt, flac>>

\* finally { ...; await safeUnlink(tmpOut); }: the second unlink settles,
\* then the handler settles
U_FinallyOut(i) ==
    /\ inv[i].pc = "unlinkOut"
    /\ LET p == TmpOutOf(inv[i].name)
           u2 == safeUnlink(Disk(i), p)
       IN /\ fs' = [fs EXCEPT ![inv[i].inst] = u2.files]
          /\ inv' = [Touch(i, TRUE, p, Absent) EXCEPT ![i] =
                       [inv[i] EXCEPT !.pc = "done",
                                      !.threw = inv[i].threw \/ u2.threw]]
    /\ UNCHANGED <<live, deploy, precond, ceiling, txt, flac>>

(***************************************************************************)
(* onAudioTranscribed (normalizing revision)                               *)
(***************************************************************************)
\* guards, outName, then await file.download()
T_Start(i, names) ==
    /\ inv[i].pc = "idle"
    /\ \E n \in names :
         Upd(i, IF isSafeName(n) /\ IsJsonName(n)
                THEN [inv[i] EXCEPT !.pc = "t_download", !.handler = "transcribed",
                                    !.name = n, !.key = jsonToTxtName(n)]
                ELSE [inv[i] EXCEPT !.pc = "done", !.handler = "transcribed",
                                    !.name = n])
    /\ UNCHANGED <<live, deploy, precond, ceiling, txt, flac, fs>>

\* the download settles; parse, extract, normalize, call save() without
\* awaiting it, and return.  A rejected download lands in the handler's
\* catch, a parse error in the inner catch: both log and return.
T_Download(i, fails) ==
    /\ inv[i].pc = "t_download"
    /\ \E f \in fails :
         LET parsed == JsonParse(JsonText(inv[i].name))
         IN Upd(i, IF f
                   THEN [inv[i] EXCEPT !.pc = "done", !.err = "t_download"]
                   ELSE IF ~parsed.ok
                   THEN [inv[i] EXCEPT !.pc = "done", !.err = "parse"]
                   ELSE [inv[i] EXCEPT
                           !.resp = parsed.json,
                           !.text = TextJson(ExtractJson(parsed.json)),
                           !.pc = "t_saving"])
    /\ UNCHANGED <<live, deploy, precond, ceiling, txt, flac, fs>>

\* the create-only save issued by the handler settles after the handler
\* has returned: it writes the object, or is refused with 412 (Save), or
\* rejects for another reason and writes nothing; no catch sees either
\* rejection
T_SaveSettles(i, fails) ==
    /\ inv[i].pc = "t_saving"
    /\ \E f \in fails :
         IF f
         THEN /\ Upd(i, [inv[i] EXCEPT !.pc = "done"])
              /\ UNCHANGED txt
         ELSE LET r == Save(txt, inv[i].key, inv[i].text)
              IN /\ txt' = r.store
                 /\ Upd(i, [inv[i] EXCEPT
                              !.pc = "done",
                              !.wrote = IF r.ok THEN "ok" ELSE "exists"])
    /\ UNCHANGED <<live, deploy, precond, ceiling, flac, fs>>

(***************************************************************************)
(* Spec: concurrent invocations for the same output name, short audio, no  *)
(* transient failures.  SpecRoute: one invocation of either handler with   *)
(* every probe outcome and every failure.                                  *)
(***************************************************************************)
UploadNames == {Obj_a, Obj_b}
JsonNames == {Json_c, Json_cr, Json_ct}
NoFail == {FALSE}

Init ==
    /\ deploy \in {"createOnly", "tempPromote"}
    /\ precond \in BOOLEAN
    /\ ceiling = SYNC_MAX_SECONDS_pause
    /\ inv = [i \in Inv |-> IdleInv]
    /\ txt = EmptyBucket
    /\ flac = {}
    /\ live = FirstOnly
    /\ fs = [n \in Instances |-> NoFiles]
    /\ IdleNorm
    /\ IdleExt

Next ==
    \/ \E i \in Inv : U_Start(i, UploadNames, {i}) /\ UNCHANGED <<normVars, extVars>>
    \/ \E i \in Inv : U_Download(i, NoFail) /\ UNCHANGED <<normVars, extVars>>
    \/ \E i \in Inv : U_Probe(i, {0}) /\ UNCHANGED <<normVars, extVars>>
    \/ \E i \in Inv : U_Pause(i, {QuietRun}) /\ UNCHANGED <<normVars, extVars>>
    \/ \E i \in Inv : U_Transcode(i, NoFail) /\ UNCHANGED <<normVars, extVars>>
    \/ \E i \in Inv : U_Select(i) /\ UNCHANGED <<normVars, extVars>>
    \/ \E i \in Inv : U_ReadFile(i) /\ UNCHANGED <<normVars, extVars>>
    \/ \E i \in Inv : U_Recognize(i, NoFail, {R_hi, R_none}) /\ UNCHANGED <<normVars, extVars>>
    \/ \E i \in Inv : U_Write(i, NoFail) /\ UNCHANGED <<normVars, extVars>>
    \/ \E i \in Inv : U_TmpSave(i, NoFail) /\ UNCHANGED <<normVars, extVars>>
    \/ \E i \in Inv : U_DeleteOld(i, NoFail) /\ UNCHANGED <<normVars, extVars>>
    \/ \E i \in Inv : U_Promote(i, NoFail) /\ UNCHANGED <<normVars, extVars>>
    \/ \E i \in Inv : U_Cleanup(i, NoFail) /\ UNCHANGED <<normVars, extVars>>
    \/ \E i \in Inv : U_Finally(i) /\ UNCHANGED <<normVars, extVars>>
    \/ \E i \in Inv : U_FinallyOut(i) /\ UNCHANGED <<normVars, extVars>>
    \/ \E i \in Inv : T_Start(i, JsonNames) /\ UNCHANGED <<normVars, extVars>>
    \/ \E i \in Inv : T_Download(i, NoFail) /\ UNCHANGED <<normVars, extVars>>
    \/ \E i \in Inv : T_SaveSettles(i, NoFail) /\ UNCHANGED <<normVars, extVars>>

Spec == Init /\ [][Next]_vars

RouteNames == {Obj_a, Obj_d}
RouteJsonNames == {Json_c, Json_x, Txt_c}
MayFail == {FALSE, TRUE}

InitRoute ==
    /\ deploy \in {"createOnly", "tempPromote"}
    /\ precond \in BOOLEAN
    /\ ceiling \in Ceilings
    /\ inv = [i \in Inv |-> IdleInv]
    /\ txt \in {EmptyBucket, Put(EmptyBucket, Txt_c, W_hi)}
    /\ flac = {}
    /\ live = FirstOnly
    /\ \E left \in {NoFiles, Put(NoFiles, TmpOutOf(Obj_a), Obj_b)} :
          fs = [n \in Instances |-> IF n = 1 THEN left ELSE NoFiles]
    /\ IdleNorm
    /\ IdleExt

NextRoute ==
    \/ U_Start(1, RouteNames, {1}) /\ UNCHANGED <<normVars, extVars>>
    \/ U_Download(1, MayFail) /\ UNCHANGED <<normVars, extVars>>
    \/ U_Probe(1, Durations) /\ UNCHANGED <<normVars, extVars>>
    \/ U_Pause(1, PauseRuns) /\ UNCHANGED <<normVars, extVars>>
    \/ U_Transcode(1, MayFail) /\ UNCHANGED <<normVars, extVars>>
    \/ U_Select(1) /\ UNCHANGED <<normVars, extVars>>
    \/ U_ReadFile(1) /\ UNCHANGED <<normVars, extVars>>
    \/ U_Recognize(1, MayFail, HandlerResults) /\ UNCHANGED <<normVars, extVars>>
    \/ U_Write(1, MayFail) /\ UNCHANGED <<normVars, extVars>>
    \/ U_TmpSave(1, MayFail) /\ UNCHANGED <<normVars, extVars>>
    \/ U_DeleteOld(1, MayFail) /\ UNCHANGED <<normVars, extVars>>
    \/ U_Promote(1, MayFail) /\ UNCHANGED <<normVars, extVars>>
    \/ U_Cleanup(1, MayFail) /\ UNCHANGED <<normVars, extVars>>
    \/ U_Upload(1, MayFail) /\ UNCHANGED <<normVars, extVars>>
    \/ U_Batch(1, MayFail) /\ UNCHANGED <<normVars, extVars>>
    \/ U_Finally(1) /\ UNCHANGED <<normVars, extVars>>
    \/ U_FinallyOut(1) /\ UNCHANGED <<normVars, extVars>>
    \/ T_Start(1, RouteJsonNames) /\ UNCHANGED <<normVars, extVars>>
    \/ T_Download(1, MayFail) /\ UNCHANGED <<normVars, extVars>>
    \/ T_SaveSettles(1, MayFail) /\ UNCHANGED <<normVars, extVars>>

SpecRoute == InitRoute /\ [][NextRoute]_vars

(***************************************************************************)
(* SpecShared: invocations of onAudioUploaded served concurrently by one   *)
(* instance, so that they share one /tmp.                                  *)
(***************************************************************************)
SharedNames == {Obj_a, Obj_b, Obj_d}

InitShared ==
    /\ deploy = "createOnly"
    /\ precond \in BOOLEAN
    /\ ceiling = SYNC_MAX_SECONDS_pause
    /\ inv = [i \in Inv |-> IdleInv]
    /\ txt = EmptyBucket
    /\ flac = {}
    /\ live = FirstOnly
    /\ fs = [n \in Instances |-> NoFiles]
    /\ IdleNorm
    /\ IdleExt

NextShared ==
    \/ \E i \in Inv : U_Start(i, SharedNames, {1}) /\ UNCHANGED <<normVars, extVars>>
    \/ \E i \in Inv : U_Download(i, NoFail) /\ UNCHANGED <<normVars, extVars>>
    \/ \E i \in Inv : U_Probe(i, {0, SYNC_MAX_SECONDS_pause + 1}) /\ UNCHANGED <<normVars, extVars>>
    \/ \E i \in Inv : U_Pause(i, {QuietRun}) /\ UNCHANGED <<normVars, extVars>>
    \/ \E i \in Inv : U_Transcode(i, NoFail) /\ UNCHANGED <<normVars, extVars>>
    \/ \E i \in Inv : U_Select(i) /\ UNCHANGED <<normVars, extVars>>
    \/ \E i \in Inv : U_ReadFile(i) /\ UNCHANGED <<normVars, extVars>>
    \/ \E i \in Inv : U_Recognize(i, NoFail, {R_hi}) /\ UNCHANGED <<normVars, extVars>>
    \/ \E i \in Inv : U_Write(i, NoFail) /\ UNCHANGED <<normVars, extVars>>
    \/ \E i \in Inv : U_Upload(i, NoFail) /\ UNCHANGED <<normVars, extVars>>
    \/ \E i \in Inv : U_Batch(i, NoFail) /\ UNCHANGED <<normVars, extVars>>
    \/ \E i \in Inv : U_Finally(i) /\ UNCHANGED <<normVars, extVars>>
    \/ \E i \in Inv : U_FinallyOut(i) /\ UNCHANGED <<normVars, extVars>>

SpecShared == InitShared /\ [][NextShared]_vars

(***************************************************************************)
(* Normalizer properties                                                   *)
(***************************************************************************)
Letters == {UpperAlpha[k] : k \in 1..26} \cup {LowerAlpha[k] : k \in 1..26}

PlainToks(toks) ==
    \A k \in 1..Len(toks) :
        toks[k] # <<>> /\ \A m \in 1..Len(toks[k]) : toks[k][m] \in Letters

NoLiteral(toks) == \A k \in 1..Len(toks) : lower(toks[k]) # W_literal

\* number of tokens of the punctuation word or phrase starting at i (0: none)
PhraseLen(toks, i) ==
    IF IsQuestionMark(toks, i) \/ IsExclamation(toks, i) THEN 2
    ELSE IF IsOneWord(toks, i) THEN 1
    ELSE 0

PhraseSymbol(toks, i) ==
    IF IsQuestionMark(toks, i) THEN "?"
    ELSE IF IsExclamation(toks, i) THEN "!"
    ELSE SymbolOf(lower(toks[i]))

Text_sayCommaNow == JoinWith(<<W_say, W_comma, W_now>>, <<" ">>)
Text_basicOut ==
    JoinWith(<<W_hello \o <<",">>, W_how, W_are, W_you \o <<"?">>>>, <<" ">>)
Text_greatOut == W_great \o <<"!">>

\* C3 (as claimed): normalizeTranscript(normalizeTranscript(x)) equals
\* normalizeTranscript(x) for every input x.
C3_Idempotent == nstage = "again" => nres2 = nres

\* the emitted tokens the claim describes: each unescaped punctuation word or
\* phrase becomes its symbol on the end of the previous emitted token
RECURSIVE C4_Emitted(_, _, _)
C4_Emitted(toks, i, emitted) ==
    IF i > Len(toks) THEN emitted
    ELSE IF PhraseLen(toks, i) > 0
         THEN LET sym == PhraseSymbol(toks, i)
                  e == IF emitted = <<>> THEN <<<<sym>>>>
                       ELSE IF EndsWith(emitted[Len(emitted)], sym) THEN emitted
                       ELSE [emitted EXCEPT ![Len(emitted)] = @ \o <<sym>>]
              IN C4_Emitted(toks, i + PhraseLen(toks, i), e)
         ELSE C4_Emitted(toks, i + 1, Append(emitted, toks[i]))

\* C4 (as claimed): every punctuation word or two-token phrase not preceded
\* by "literal" is replaced in the output by its symbol, attached with no
\* separating space to the preceding emitted token (or emitted bare when there
\* is none); "hello comma how are you question mark" gives
\* "hello, how are you?" and "great exclamation point" gives "great!".
C4_PunctuationAttached ==
    (nstage = "done" /\ ntoks # <<>> /\ PlainToks(ntoks) /\ NoLiteral(ntoks))
        => nres = JoinWith(C4_Emitted(ntoks, 1, <<>>), <<" ">>)

IsEscapeAt(toks, i) ==
    lower(toks[i]) = W_literal /\ i < Len(toks) /\ PhraseLen(toks, i + 1) > 0

\* the input tokens without the "literal" tokens that escape a punctuation word
RECURSIVE C5_Kept(_, _)
C5_Kept(toks, i) ==
    IF i > Len(toks) THEN <<>>
    ELSE IF IsEscapeAt(toks, i)
         THEN LET n == PhraseLen(toks, i + 1)
              IN SubSeq(toks, i + 1, i + n) \o C5_Kept(toks, i + 1 + n)
         ELSE <<toks[i]>> \o C5_Kept(toks, i + 1)

\* every punctuation word or phrase of the input is escaped
RECURSIVE C5_AllEscaped(_, _)
C5_AllEscaped(toks, i) ==
    IF i > Len(toks) THEN TRUE
    ELSE IF IsEscapeAt(toks, i)
         THEN C5_AllEscaped(toks, i + 1 + PhraseLen(toks, i + 1))
         ELSE PhraseLen(toks, i) = 0 /\ C5_AllEscaped(toks, i + 1)

C5_Output ==
    (nstage = "done" /\ ntoks # <<>> /\ PlainToks(ntoks) /\ C5_AllEscaped(ntoks, 1))
        => nres = JoinWith(C5_Kept(ntoks, 1), <<" ">>)

C5_Step ==
    (nstage = "loop" /\ ni <= Len(ntoks) /\ nstage' = "loop" /\ ni' # ni)
        => LET n == PhraseLen(ntoks, ni)
           IN /\ (n > 0 /\ ni > 1 /\ lower(ntoks[ni - 1]) = W_literal)
                    => /\ nout # <<>>
                       /\ nout[Len(nout)] = ntoks[ni - 1]
                       /\ nout' = SubSeq(nout, 1, Len(nout) - 1)
                                      \o SubSeq(ntoks, ni, ni + n - 1)
                       /\ ni' = ni + n
              /\ lower(ntoks[ni]) = W_literal
                    => nout' = Append(nout, ntoks[ni])

\* C5: when the token before a punctuation word or two-token phrase is
\* "literal" (any case), the loop drops that "literal" and emits the
\* punctuation word(s) unconverted in their original case; a "literal" token is
\* itself emitted unchanged; and an input whose punctuation words are all
\* escaped comes out as its tokens minus the escaping "literal" tokens, so
\* "say literal comma now" gives "say comma now".
C5_LiteralEscape == [](C5_Output) /\ [][C5_Step]_vars

\* an escape of a capitalised word after a capitalised "Literal" has returned
C5_Witness ==
    /\ nstage = "done"
    /\ \E k \in 1..(Len(ntoks) - 1) : ntoks[k] = W_Literal /\ ntoks[k + 1] = W_Period
    /\ PlainToks(ntoks) /\ C5_AllEscaped(ntoks, 1)
    /\ Len(C5_Kept(ntoks, 1)) < Len(ntoks)

SingleSpaced(s) ==
    /\ s # <<>> => (~IsWs(s[1]) /\ ~IsWs(s[Len(s)]))
    /\ \A k \in 1..Len(s) : s[k] \notin (LineBreaks \cup {"\t"})
    /\ \A k \in 1..(Len(s) - 1) : ~(s[k] = " " /\ s[k + 1] = " ")

\* C6: the output of normalizeTranscript has no leading or trailing
\* whitespace, no line break or tab, and no two consecutive spaces.
C6_SingleSpaced == NormReturned => SingleSpaced(nres)

\* an input laid out with tabs, line breaks and padding has been normalized
C6_Witness ==
    /\ nstage = "done"
    /\ Len(ntoks) >= 2
    /\ IsWs(nin[1]) /\ IsWs(nin[Len(nin)])
    /\ \E k \in 1..Len(nin) : nin[k] \in LineBreaks \cup {"\t"}

(***************************************************************************)
(* Extractor properties                                                    *)
(***************************************************************************)
\* the segment's first alternative has a transcript that is not blank
C7_Kept(r) ==
    /\ r.hasAlts
    /\ Len(r.alternatives) >= 1
    /\ r.alternatives[1].hasT
    /\ Trim(r.alternatives[1].transcript) # <<>>

C7_Expected(res) ==
    LET kept == SelectSeq(res.results, C7_Kept)
    IN Trim(JoinWith([k \in 1..Len(kept) |-> Trim(kept[k].alternatives[1].transcript)],
                     BlankLine))

\* C7: both handlers extract the trimmed, non-blank transcripts of the first
\* alternative of each segment, in order, joined by a blank line and trimmed;
\* later alternatives never contribute; both handlers give the same text.
C7_Extract ==
    xstage \in {"jsonText", "done"}
        => /\ xtextS = xtextJ
           /\ xtextJ = C7_Expected(xres)

\* a segment with a blank first alternative and a non-blank second one, next
\* to a segment that is kept, has been extracted by both handlers
C7_Witness ==
    /\ xstage = "done"
    /\ xtextJ # <<>>
    /\ \E k \in 1..Len(xres.results) :
          LET r == xres.results[k]
          IN /\ r.hasAlts /\ Len(r.alternatives) = 2
             /\ ~C7_Kept(r)
             /\ r.alternatives[2].hasT /\ Trim(r.alternatives[2].transcript) # <<>>

C8_NothingKept(res) == \A k \in 1..Len(res.results) : ~C7_Kept(res.results[k])

\* C8: the text handed to the writer is never empty; when no first
\* alternative is non-blank it is exactly the placeholder, which
\* normalizeTranscript returns unchanged.
C8_NeverEmpty ==
    /\ xstage \in {"syncDone", "jsonText", "done"} => xwS # <<>>
    /\ xstage = "done" => xwJ # <<>>
    /\ (xstage = "done" /\ C8_NothingKept(xres))
          => /\ xwS = Placeholder
             /\ xwJ = Placeholder
             /\ normalizeTranscript(xwJ) = Placeholder

\* a result with segments but no usable transcript went through both handlers
C8_Witness ==
    /\ xstage = "done"
    /\ Len(xres.results) >= 1
    /\ C8_NothingKept(xres)
    /\ xwS = Placeholder /\ xwJ = Placeholder

(***************************************************************************)
(* Routing properties                                                      *)
(***************************************************************************)
C1_Async(d, c) == d = NaN \/ d > c

C1_Batch == {"batchRecognize", "batchRecognizeFailed"}

\* C1: for every probed duration (finite or unknown), silence flag and
\* ceiling, onAudioUploaded takes the Async path iff the duration is unknown
\* or exceeds the ceiling and the Sync path otherwise (a duration equal to the
\* ceiling is Sync); the silence flag has no part in the choice.
C1_PathSelection ==
    \A i \in Inv :
       LET async == C1_Async(inv[i].seconds, ceiling)
       IN /\ inv[i].model # "none" => (inv[i].useSync <=> ~async)
          /\ inv[i].pc \in {"readfile", "recognize", "write", "tmpsave"} => ~async
          /\ inv[i].pc \in {"upload", "batch"} => async
          /\ inv[i].req.kind = "recognize" => ~async
          /\ inv[i].req.kind \in C1_Batch => async

\* audio exactly as long as the ceiling, with a long pause, was recognized
\* synchronously
C1_Witness ==
    /\ inv[1].seconds = ceiling
    /\ inv[1].longPause
    /\ inv[1].req.kind = "recognize"

\* C2: in the pause-detecting revision the synchronous recognize call gets
\* the long-form model iff the silence detector reported a long pause and the
\* short-form model otherwise; batchRecognize always gets the long-form model.
C2_ModelSelection ==
    deploy = "createOnly" =>
       \A i \in Inv :
          /\ inv[i].req.kind = "recognize" =>
                /\ inv[i].longPause => inv[i].req.model = SPEECH_MODEL_LONG
                /\ ~inv[i].longPause => inv[i].req.model = SPEECH_MODEL_SHORT
          /\ inv[i].req.kind \in C1_Batch => inv[i].req.model = SPEECH_MODEL_LONG

\* short audio with a long pause was sent to recognize with the long-form model
C2_Witness ==
    /\ deploy = "createOnly"
    /\ inv[1].req = [kind |-> "recognize", model |-> SPEECH_MODEL_LONG]
    /\ inv[1].longPause
    /\ inv[1].seconds <= ceiling

(***************************************************************************)
(* Writer properties                                                       *)
(***************************************************************************)
C9_Attempts(k) == {i \in Inv : inv[i].key = k /\ inv[i].wrote \in {"ok", "exists"}}

C9_Winners(k) == {i \in Inv : inv[i].key = k /\ inv[i].wrote = "ok"}

\* C9 (as claimed): with create-only saves, among the write attempts made at
\* one output key (by duplicate upload events, duplicate JSON events, or
\* different JSON names with the same .txt name) exactly one succeeds, every
\* other one gets the already-exists outcome, and the object holds the
\* successful writer's text from then on.
C9_CreateOnlyOnce ==
    deploy = "createOnly" =>
       \A i \in Inv :
          C9_Attempts(inv[i].key) # {} =>
             /\ Cardinality(C9_Winners(inv[i].key)) = 1
             /\ inv[i].key \in DOMAIN txt
             /\ \A w \in C9_Winners(inv[i].key) : txt[inv[i].key] = inv[w].text

C10_FinalKeys == {inv[i].key : i \in {j \in Inv : inv[j].handler # "none"}}

\* C10: under create-only and under temp-then-promote, with or without the
\* precondition applied by the storage client, whatever is stored at a final
\* output key is the whole text of one writer for that key: never
\* zero-length, never a part or a mixture of texts.
C10_WholeText ==
    \A k \in C10_FinalKeys \cap DOMAIN txt :
       /\ txt[k] # <<>>
       /\ \E i \in Inv : inv[i].key = k /\ inv[i].text = txt[k]

\* the final object of one writer has been replaced by another writer's,
\* whose save was sent without the precondition
C10_Witness ==
    /\ deploy = "createOnly"
    /\ ~precond
    /\ \E i, j \in Inv :
          /\ inv[i].key = inv[j].key
          /\ inv[i].wrote = "ok" /\ inv[j].wrote = "ok"
          /\ inv[i].text # inv[j].text
          /\ inv[i].key \in DOMAIN txt /\ txt[inv[i].key] = inv[j].text

(***************************************************************************)
(* Error-handling properties                                               *)
(***************************************************************************)
\* the save of invocation i settles in this step, created or refused, on a
\* key that holds an object
C11_Duplicate(i) ==
    /\ deploy = "createOnly"
    /\ inv[i].key \in DOMAIN txt
    /\ inv[i].wrote = "none"
    /\ inv'[i].wrote \in {"ok", "exists"}

\* no error of that save reaches the trigger framework
C11_NoError == \A i \in Inv : C11_Duplicate(i) => ~inv'[i].threw

\* the object is left as it was
C11_Unchanged == \A i \in Inv : C11_Duplicate(i) => txt' = txt

\* C11 (as claimed): with create-only saves, an event delivered when its
\* output object already exists is a no-op: the invocation ends without an
\* error reaching the trigger framework and the existing object is left as it
\* was.
C11_DuplicateNoOp == [][C11_NoError /\ C11_Unchanged]_vars

\* the handler's promise has resolved: the body ran to its end or returned
T_Returned(i) ==
    inv[i].handler = "transcribed" /\ inv[i].pc \in {"t_saving", "done"}

\* C12: onAudioTranscribed does not complete before its write of the .txt
\* has finished: once the handler has returned after issuing a save, the
\* outcome of that save (created, or already exists) is determined.
C12_WriteBeforeReturn ==
    \A i \in Inv :
       (T_Returned(i) /\ inv[i].text # <<>>) => inv[i].wrote \in {"ok", "exists"}

(***************************************************************************)
(* Sync and async paths write the same text                                *)
(***************************************************************************)
\* C13: on the Sync path the text written is the normalizer's output for the
\* extracted text, i.e. what onAudioTranscribed writes for the same
\* recognition result.
C13_SyncNormalized ==
    \A i \in Inv :
       (inv[i].handler = "upload" /\ inv[i].wrote = "ok") =>
          /\ inv[i].key \in DOMAIN txt
          /\ txt[inv[i].key] = TextJson(ExtractJson(inv[i].resp))

\* C14: a failed download of the handler's input (the audio in
\* onAudioUploaded, the JSON in onAudioTranscribed) is propagated out of the
\* handler to the trigger framework and is never swallowed.
C14_DownloadFailurePropagates ==
    \A i \in Inv :
       (inv[i].pc = "done" /\ inv[i].err \in {"download", "t_download"}) =>
          inv[i].threw

\* both scratch files of invocation i are gone from its instance
ScratchRemoved(i) ==
    /\ ~HasFile(i, TmpInOf(inv[i].name))
    /\ ~HasFile(i, TmpOutOf(inv[i].name))

\* C15: when starting the batch job fails, onAudioUploaded completes
\* normally: no exception reaches the trigger framework, the uploaded
\* transcode stays, no text artifact is written, and the scratch files are
\* removed.
C15_BatchFailureSwallowed ==
    \A i \in Inv :
       inv[i].err = "batch" =>
          /\ inv[i].pc \in {"finally", "unlinkOut", "done"}
          /\ ~inv[i].threw
          /\ FlacKeyOf(inv[i].name) \in flac
          /\ inv[i].wrote = "none" /\ inv[i].text = <<>>
          /\ TmpNameOf(inv[i].name) \notin DOMAIN txt
          /\ inv[i].pc = "done" => ScratchRemoved(i)

\* an invocation whose batch start was rejected has ended
C15_Witness ==
    /\ inv[1].pc = "done"
    /\ inv[1].err = "batch"
    /\ inv[1].req.kind = "batchRecognizeFailed"
    /\ ~inv[1].useSync

C16_Failed(i) == inv[i].err = "recognize"

C16_Outcome ==
    \A i \in Inv :
       C16_Failed(i) =>
          /\ inv[i].pc \in {"finally", "unlinkOut", "done"}
          /\ inv[i].threw
          /\ inv[i].wrote = "none" /\ inv[i].text = <<>>
          /\ TmpNameOf(inv[i].name) \notin DOMAIN txt
          /\ inv[i].pc = "done" => ScratchRemoved(i)

C16_NoWrite == (\E i \in Inv : C16_Failed(i) \/ C16_Failed(i)') => txt' = txt

\* C16: when the synchronous recognize call fails, the error leaves
\* onAudioUploaded for the trigger framework, the invocation writes neither
\* the final nor a temporary object, and the scratch files are removed.
C16_RecognizeFailurePropagates == [](C16_Outcome) /\ [][C16_NoWrite]_vars

\* an invocation whose recognize call was rejected has ended
C16_Witness ==
    /\ inv[1].pc = "done"
    /\ inv[1].err = "recognize"
    /\ inv[1].req.kind = "recognize"
    /\ inv[1].threw

\* invocation i of onAudioTranscribed has downloaded bytes that are not JSON
C17_Unparseable(i) ==
    /\ inv[i].handler = "transcribed"
    /\ inv[i].pc \in {"t_saving", "done"}
    /\ inv[i].key # <<>>
    /\ inv[i].err # "t_download"
    /\ ~JsonText(inv[i].name).parses

C17_Outcome ==
    \A i \in Inv :
       C17_Unparseable(i) =>
          /\ inv[i].pc = "done"
          /\ inv[i].err = "parse"
          /\ ~inv[i].threw
          /\ inv[i].wrote = "none" /\ inv[i].text = <<>>

C17_NoWrite == (\E i \in Inv : C17_Unparseable(i)') => txt' = txt

\* C17: when the downloaded result is not parseable JSON, onAudioTranscribed
\* ends the invocation normally, without re-raising, and writes nothing to
\* the object store.
C17_UnparseableJson == [](C17_Outcome) /\ [][C17_NoWrite]_vars

\* x.json was downloaded and could not be parsed
C17_Witness ==
    /\ inv[1].name = Json_x
    /\ inv[1].pc = "done"
    /\ inv[1].err = "parse"

(***************************************************************************)
(* Scratch-file properties                                                 *)
(***************************************************************************)
C18_ExitPaths ==
    {"none", "download", "transcode", "readFile", "recognize", "write",
     "tmpsave", "promote", "upload", "batch"}

\* C18: on every exit path of onAudioUploaded after the scratch paths are
\* computed (normal completion, the swallowed batch-start failure, or an
\* exception from any awaited step) both scratch files are unlinked before
\* the invocation ends; a failed unlink of one does not stop the other.
C18_ScratchReleased ==
    \A i \in Inv :
       (inv[i].handler = "upload" /\ inv[i].pc = "done") =>
          /\ inv[i].err \in C18_ExitPaths
          /\ ScratchRemoved(i)
          /\ inv[i].threw <=> inv[i].err \notin {"none", "batch"}

\* the download was rejected, so tmpIn may never have existed, and the
\* invocation has ended
C18_Witness ==
    /\ inv[1].handler = "upload"
    /\ inv[1].pc = "done"
    /\ inv[1].err = "download"
    /\ inv[1].name = Obj_a

\* the invocations in flight were delivered different object names
C19_DistinctInputs ==
    \A i, j \in Inv :
       (i # j /\ inv[i].pc # "idle" /\ inv[j].pc # "idle") =>
          inv[i].name # inv[j].name

\* the scratch file invocation i is about to read holds its own audio
C19_OwnFile(i, p) == HasFile(i, p) /\ Disk(i)[p] = inv[i].name

\* C19: concurrent onAudioUploaded invocations for different input objects
\* do not interfere through scratch files: the file an invocation reads next
\* is the one it created, not overwritten or deleted by another invocation,
\* also when the names share a basename under different prefixes.
C19_NoScratchInterference ==
    C19_DistinctInputs =>
       \A i \in Inv :
          /\ inv[i].pc \in {"probe", "pause", "transcode"} =>
                C19_OwnFile(i, TmpInOf(inv[i].name))
          /\ inv[i].pc \in {"select", "readfile", "upload"} =>
                C19_OwnFile(i, TmpOutOf(inv[i].name))
          /\ inv[i].audio \in {Absent, inv[i].name}

(***************************************************************************)
(* Silence detector                                                        *)
(***************************************************************************)
\* C20: hasLongPause returns false whenever the analysis subprocess was
\* killed by the timeout, whatever it had written to stderr before; it
\* returns true only for a silence run reported by a completed analysis.
C20_TimeoutIsFalse ==
    \A i \in Inv :
       /\ inv[i].pauseRun.killed => ~inv[i].longPause
       /\ inv[i].longPause =>
             (~inv[i].pauseRun.killed /\ HasSilenceStart(inv[i].pauseRun.stderr))

(***************************************************************************)
(* SpecName: one onAudioTranscribed invocation for every object name that  *)
(* can be assembled from at most MaxParts name pieces.                     *)
(***************************************************************************)
MaxParts == 3

P_clip == <<"c", "l", "i", "p">>
P_9f3a == <<"_", "9", "f", "3", "a">>
P_result2 == <<"_", "r", "e", "s", "u", "l", "t", "-", "2">>
P_JSON == <<".", "J", "S", "O", "N">>
Name_clipLong == P_clip \o S_transcript \o P_9f3a \o P_result2 \o S_json
Name_clipJson == P_clip \o S_json
Name_clipTxt == P_clip \o S_txt

NamePieces == {P_clip, S_transcript, P_9f3a, P_result2, S_result, S_json, P_JSON,
               S_txt, <<" ">>}

RECURSIVE ConcatParts(_)
ConcatParts(ps) == IF ps = <<>> THEN <<>> ELSE Head(ps) \o ConcatParts(Tail(ps))

NameInputs ==
    {ConcatParts(ps) : ps \in UNION {[1..n -> NamePieces] : n \in 1..MaxParts}}
        \cup {Name_clipLong, Name_clipJson}

InitName ==
    /\ deploy = "createOnly"
    /\ precond \in BOOLEAN
    /\ ceiling = SYNC_MAX_SECONDS_pause
    /\ inv = [i \in Inv |-> IdleInv]
    /\ txt = EmptyBucket
    /\ flac = {}
    /\ live = FirstOnly
    /\ fs = [n \in Instances |-> NoFiles]
    /\ IdleNorm
    /\ IdleExt

NextName ==
    \/ T_Start(1, NameInputs) /\ UNCHANGED <<normVars, extVars>>
    \/ T_Download(1, NoFail) /\ UNCHANGED <<normVars, extVars>>
    \/ T_SaveSettles(1, MayFail) /\ UNCHANGED <<normVars, extVars>>

SpecName == InitName /\ [][NextName]_vars

(***************************************************************************)
(* Output naming                                                           *)
(***************************************************************************)
C21_Contains(s, t) == \E p \in 1..Len(s) : StartsWithAt(s, p, t)

\* names made of "clip", an optional "_transcript..." segment, an optional
\* "_result-2" segment and a ".json" extension in either case
C21_ClipNames ==
    {P_clip \o t \o r \o e :
        t \in {<<>>} \cup {S_transcript \o m : m \in {<<>>, P_9f3a, S_json, S_result}},
        r \in {<<>>, P_result2},
        e \in {S_json, P_JSON}}

\* C21: jsonToTxtName removes the ".json" extension in any letter case
\* together with a trailing "_transcript..." segment, then an optional
\* trailing "_result-<digits>" segment, and appends ".txt":
\* "clip_transcript_9f3a_result-2.json" and "clip.json" both give "clip.txt",
\* what is kept is a prefix of the name without any "_transcript", and the
\* result never ends in ".json" nor equals the input name.
C21_JsonToTxtName ==
    (inv[1].handler = "transcribed" /\ inv[1].key # <<>>) =>
        LET n == inv[1].name
            k == inv[1].key
            kept == SubSeq(k, 1, Len(k) - 4)
        IN /\ EndsWithSeq(k, S_txt)
           /\ ~EndsWithSeq(lower(k), S_json)
           /\ k # n
           /\ Len(kept) <= Len(Trim(n)) - 5
           /\ kept = SubSeq(Trim(n), 1, Len(kept))
           /\ ~C21_Contains(lower(kept), S_transcript)
           /\ (~C21_Contains(lower(n), S_transcript)
                   /\ ~C21_Contains(lower(n), S_result)) =>
                  Len(kept) = Len(Trim(n)) - 5
           /\ n \in C21_ClipNames => k = Name_clipTxt
           /\ n = Name_clipLong => k = Name_clipTxt
           /\ n = Name_clipJson => k = Name_clipTxt

\* the name of the claim's example has been mapped to "clip.txt" and written
C21_Witness ==
    /\ inv[1].name = Name_clipLong
    /\ inv[1].key = Name_clipTxt
    /\ inv[1].wrote = "ok"
    /\ Name_clipTxt \in DOMAIN txt

(***************************************************************************)
(* Spacing around symbols, unmatched tokens, runs after "literal"          *)
(***************************************************************************)
\* C22 (as claimed): the output of normalizeTranscript contains no whitespace
\* immediately before a punctuation symbol (. , ! ? ; :); consecutive
\* punctuation words with no word between them give symbols attached to each
\* other with no space between them.
C22_NoSpaceBeforeSymbol ==
    NormReturned =>
        \A k \in 1..(Len(nres) - 1) : ~(IsWs(nres[k]) /\ nres[k + 1] \in PunctChars)

\* the tokens that reach the loop's default branch and stay in out: neither
\* part of a punctuation word or phrase nor an escaping "literal"
RECURSIVE C23_Unmatched(_, _)
C23_Unmatched(toks, i) ==
    IF i > Len(toks) THEN <<>>
    ELSE IF IsEscapeAt(toks, i)
         THEN C23_Unmatched(toks, i + 1 + PhraseLen(toks, i + 1))
    ELSE IF PhraseLen(toks, i) > 0
         THEN C23_Unmatched(toks, i + PhraseLen(toks, i))
    ELSE <<toks[i]>> \o C23_Unmatched(toks, i + 1)

\* the tokens occur in s from position p on, whole, one after the other
RECURSIVE C23_InOrder(_, _, _)
C23_InOrder(ts, s, p) ==
    IF ts = <<>> THEN TRUE
    ELSE LET at == {q \in p..Len(s) : StartsWithAt(s, q, Head(ts))}
         IN at # {} /\ C23_InOrder(Tail(ts), s, SetMin(at) + Len(Head(ts)))

\* C23 (as claimed): every input token that matches no punctuation rule,
\* tokens holding punctuation characters such as "3.14" or "10:30" included,
\* appears in the output unchanged, character for character, in its original
\* relative order.
C23_UnmatchedUnchanged ==
    (nstage = "done" /\ ntoks # <<>>) =>
        C23_InOrder(C23_Unmatched(ntoks, 1), nres, 1)

\* what the claim describes for any plain input: an escaped word or phrase
\* is kept, every other one becomes its symbol on the end of the previous
\* emitted token
RECURSIVE C24_Emitted(_, _, _)
C24_Emitted(toks, i, emitted) ==
    IF i > Len(toks) THEN emitted
    ELSE IF IsEscapeAt(toks, i)
         THEN LET n == PhraseLen(toks, i + 1)
              IN C24_Emitted(toks, i + 1 + n, emitted \o SubSeq(toks, i + 1, i + n))
    ELSE IF PhraseLen(toks, i) > 0
         THEN LET sym == PhraseSymbol(toks, i)
                  e == IF emitted = <<>> THEN <<<<sym>>>>
                       ELSE IF EndsWith(emitted[Len(emitted)], sym) THEN emitted
                       ELSE [emitted EXCEPT ![Len(emitted)] = @ \o <<sym>>]
              IN C24_Emitted(toks, i + PhraseLen(toks, i), e)
    ELSE C24_Emitted(toks, i + 1, Append(emitted, toks[i]))

\* "literal" is followed by a run of two or more punctuation words or phrases
C24_RunAfterLiteral(toks) ==
    \E i \in 1..Len(toks) :
        /\ IsEscapeAt(toks, i)
        /\ LET j == i + 1 + PhraseLen(toks, i + 1)
           IN j <= Len(toks) /\ PhraseLen(toks, j) > 0

\* C24 (as claimed): one "literal" escapes only the punctuation word or
\* phrase right after it: for "literal" followed by a run of punctuation
\* words, normalizeTranscript returns the first as a word and every later one
\* of the run as its symbol, attached to the preceding emitted token.
C24_LiteralEscapesOne ==
    (nstage = "done" /\ PlainToks(ntoks) /\ C24_RunAfterLiteral(ntoks))
        => nres = JoinWith(C24_Emitted(ntoks, 1, <<>>), <<" ">>)

(***************************************************************************)
(* Silence detection and request ordering                                  *)
(***************************************************************************)
\* the duration probe of invocation i has returned
C25_Probed(i) ==
    /\ inv[i].handler = "upload"
    /\ inv[i].pc \notin {"idle", "download", "probe"}
    /\ inv[i].err # "download"

\* C25: in onAudioUploaded the silence detector is invoked only when the
\* duration probe returned a finite duration; when the duration is unknown
\* the silence flag is false without any detector invocation, and the
\* invocation takes the Async path.
C25_DetectorOnlyWhenFinite ==
    deploy = "createOnly" =>
       \A i \in Inv :
          /\ (inv[i].pc = "pause" \/ inv[i].pauseRun # NoRun) => inv[i].seconds # NaN
          /\ (C25_Probed(i) /\ inv[i].seconds = NaN) =>
                /\ inv[i].pauseRun = NoRun
                /\ ~inv[i].longPause
                /\ ~inv[i].useSync
                /\ inv[i].pc \notin {"readfile", "recognize", "write"}
                /\ inv[i].req.kind # "recognize"

\* audio of unknown duration went to batchRecognize with no detector run
C25_Witness ==
    /\ deploy = "createOnly"
    /\ inv[1].seconds = NaN
    /\ inv[1].req.kind = "batchRecognize"
    /\ inv[1].pauseRun = NoRun
    /\ ~inv[1].longPause

C26_Requests == {"recognize", "batchRecognize", "batchRecognizeFailed"}

\* a request is on record only for an invocation whose transcode succeeded
C26_AfterTranscode ==
    \A i \in Inv :
       /\ inv[i].req.kind # "none" =>
             /\ inv[i].req.kind \in C26_Requests
             /\ inv[i].handler = "upload"
             /\ inv[i].model # "none"
             /\ inv[i].err \notin {"download", "transcode"}
       /\ inv[i].err \in {"download", "transcode"} => inv[i].req = NoRequest

\* a request is issued once: the synchronous one when fs.readFile has
\* returned the transcode, the batch one when the upload has settled
C26_OneRequest ==
    \A i \in Inv :
       /\ inv'[i].req # inv[i].req =>
             /\ inv[i].req = NoRequest
             /\ inv[i].pc \in {"readfile", "batch"}
             /\ inv[i].pc = "readfile" <=> inv'[i].req.kind = "recognize"
       /\ inv[i].req # NoRequest => inv'[i].req = inv[i].req

\* C26: an onAudioUploaded invocation issues a recognition request only
\* after the transcode step has completed successfully, and issues one kind
\* of request, one synchronous recognize or one batchRecognize, never both;
\* if transcoding fails no recognition request is issued.
C26_RequestAfterTranscode == [](C26_AfterTranscode) /\ [][C26_OneRequest]_vars

\* a transcoded upload has been recognized synchronously and has returned
C26_Witness ==
    /\ inv[1].handler = "upload"
    /\ inv[1].req.kind = "recognize"
    /\ inv[1].pc = "done"
    /\ ~inv[1].threw

(***************************************************************************)
(* Temp-then-promote                                                       *)
(***************************************************************************)
\* the write of invocation i to c.txt was rejected at the temp save or at
\* the promote, and the invocation has returned
C27_FailedWrite(i) ==
    /\ deploy = "tempPromote"
    /\ inv[i].key = Txt_c
    /\ inv[i].err \in {"tmpsave", "promote"}
    /\ inv[i].pc = "done"

\* C27 (as claimed): if a temp-then-promote write fails at one of its steps,
\* the final key still holds the previous complete content afterwards: a
\* failed write whose delete-old step removed an object leaves the final key
\* holding the content of that object.
C27_PreviousKept ==
    \A i \in Inv :
       (C27_FailedWrite(i) /\ inv[i].removed # <<>>) =>
          /\ inv[i].key \in DOMAIN txt
          /\ txt[inv[i].key] = inv[i].removed

(***************************************************************************)
(* SpecRetry: the generation-pinned revision with redelivery.  An upload   *)
(* event for a/c.m4a is handled; an invocation that rejects is followed by *)
(* a redelivery of the same event.  Steps of the write protocol may reject *)
(* in every invocation but the last one, which is redelivered as often as  *)
(* it rejects.                                                             *)
(***************************************************************************)
FailsOf(i) == IF i < NumInv THEN MayFail ELSE NoFail

Delivered(n, m, g) ==
    [IdleInv EXCEPT !.pc = "download", !.handler = "upload", !.name = n,
                    !.key = OutNameOf(n), !.inst = m, !.gen = g]

\* the event of a rejected invocation is delivered again
R_Redeliver(i) ==
    /\ inv[i].pc = "done"
    /\ inv[i].threw
    /\ IF i < NumInv
       THEN /\ inv[i + 1].pc = "idle"
            /\ Upd(i + 1, Delivered(inv[i].name, i + 1, inv[i].gen))
       ELSE Upd(i, Delivered(inv[i].name, i, inv[i].gen))
    /\ UNCHANGED <<live, deploy, precond, ceiling, txt, flac, fs>>

InitRetry ==
    /\ deploy = "tempPromote"
    /\ precond \in BOOLEAN
    /\ ceiling = SYNC_MAX_SECONDS_pinned
    /\ inv = [i \in Inv |-> IdleInv]
    /\ txt \in {EmptyBucket, Put(EmptyBucket, Txt_c, W_hi)}
    /\ flac = {}
    /\ live = FirstOnly
    /\ fs = [n \in Instances |-> NoFiles]
    /\ IdleNorm
    /\ IdleExt

NextRetry ==
    \/ U_Start(1, {Obj_a}, {1}) /\ UNCHANGED <<normVars, extVars>>
    \/ \E i \in Inv : R_Redeliver(i) /\ UNCHANGED <<normVars, extVars>>
    \/ \E i \in Inv : U_Download(i, NoFail) /\ UNCHANGED <<normVars, extVars>>
    \/ \E i \in Inv : U_Probe(i, {0, SYNC_MAX_SECONDS_pinned})
                         /\ UNCHANGED <<normVars, extVars>>
    \/ \E i \in Inv : U_Transcode(i, NoFail) /\ UNCHANGED <<normVars, extVars>>
    \/ \E i \in Inv : U_Select(i) /\ UNCHANGED <<normVars, extVars>>
    \/ \E i \in Inv : U_ReadFile(i) /\ UNCHANGED <<normVars, extVars>>
    \/ \E i \in Inv : U_Recognize(i, FailsOf(i), {R_hi, R_none})
                         /\ UNCHANGED <<normVars, extVars>>
    \/ \E i \in Inv : U_TmpSave(i, FailsOf(i)) /\ UNCHANGED <<normVars, extVars>>
    \/ \E i \in Inv : U_DeleteOld(i, FailsOf(i)) /\ UNCHANGED <<normVars, extVars>>
    \/ \E i \in Inv : U_Promote(i, FailsOf(i)) /\ UNCHANGED <<normVars, extVars>>
    \/ \E i \in Inv : U_Cleanup(i, FailsOf(i)) /\ UNCHANGED <<normVars, extVars>>
    \/ \E i \in Inv : U_Finally(i) /\ UNCHANGED <<normVars, extVars>>
    \/ \E i \in Inv : U_FinallyOut(i) /\ UNCHANGED <<normVars, extVars>>

SpecRetry == InitRetry /\ [][NextRetry]_vars /\ WF_vars(NextRetry)

\* invocation i has finished with its text under the final key and no
\* temporary object in the bucket
C28_Completed(i) ==
    /\ inv[i].pc = "done"
    /\ ~inv[i].threw
    /\ inv[i].key \in DOMAIN txt
    /\ txt[inv[i].key] = inv[i].text
    /\ TmpNameOf(inv[i].name) \notin DOMAIN txt

\* an invocation has rejected, so that its event is delivered again
C28_Failed == \E i \in Inv : inv[i].pc = "done" /\ inv[i].threw

PlainTxtName(name) == SubSeq(name, 1, Len(name) - 5) \o S_txt

\* guards, base, outName, then await outFile.exists()
E_Start(i, names) ==
    /\ inv[i].pc = "idle"
    /\ \E n \in names :
         Upd(i, IF isSafeName(n) /\ IsJsonName(n)
                THEN [inv[i] EXCEPT !.pc = "e_exists", !.handler = "transcribed",
                                    !.name = n, !.key = PlainTxtName(n)]
                ELSE [inv[i] EXCEPT !.pc = "done", !.handler = "transcribed",
                                    !.name = n])
    /\ UNCHANGED <<live, deploy, precond, ceiling, txt, flac, fs>>

\* const [exists] = await outFile.exists(); if (exists) return;  A rejected
\* exists() lands in the handler's catch, which logs it and returns.
E_Exists(i, fails) ==
    /\ inv[i].pc = "e_exists"
    /\ \E f \in fails :
         Upd(i, IF f
                THEN [inv[i] EXCEPT !.pc = "done", !.err = "e_exists"]
                ELSE IF inv[i].key \in DOMAIN txt
                THEN [inv[i] EXCEPT !.pc = "done", !.wrote = "exists"]
                ELSE [inv[i] EXCEPT !.pc = "e_download"])
    /\ UNCHANGED <<live, deploy, precond, ceiling, txt, flac, fs>>

\* the download settles; parse, extract, skip an empty transcript, then
\* await outFile.save(text, ...) without a precondition
E_Download(i, fails) ==
    /\ inv[i].pc = "e_download"
    /\ \E f \in fails :
         LET parsed == JsonParse(JsonText(inv[i].name))
             text == ExtractJson(parsed.json)
         IN Upd(i, IF f
                   THEN [inv[i] EXCEPT !.pc = "done", !.err = "e_download"]
                   ELSE IF ~parsed.ok
                   THEN [inv[i] EXCEPT !.pc = "done", !.err = "parse"]
                   ELSE IF text = <<>>
                   THEN [inv[i] EXCEPT !.pc = "done", !.resp = parsed.json]
                   ELSE [inv[i] EXCEPT !.resp = parsed.json, !.text = text,
                                       !.pc = "e_save"])
    /\ UNCHANGED <<live, deploy, precond, ceiling, txt, flac, fs>>

\* the awaited save settles; a rejection lands in the catch, which logs it
E_Save(i, fails) ==
    /\ inv[i].pc = "e_save"
    /\ \E f \in fails :
         IF f
         THEN /\ Upd(i, [inv[i] EXCEPT !.pc = "done", !.err = "e_save"])
              /\ UNCHANGED txt
         ELSE /\ txt' = Put(txt, inv[i].key, inv[i].text)
              /\ Upd(i, [inv[i] EXCEPT !.pc = "done", !.wrote = "ok"])
    /\ UNCHANGED <<live, deploy, precond, ceiling, flac, fs>>

(***************************************************************************)
(* SpecExists: invocations of the exists()-then-save revision, delivered   *)
(* one after the other or at the same time.                                *)
(***************************************************************************)
ExistsNames == {Json_c, Json_cr, Json_x, Json_ct, Txt_c}

InitExists ==
    /\ deploy = "createOnly"
    /\ precond \in BOOLEAN
    /\ ceiling = SYNC_MAX_SECONDS_pause
    /\ inv = [i \in Inv |-> IdleInv]
    /\ txt \in {EmptyBucket, Put(EmptyBucket, Txt_c, W_hi)}
    /\ flac = {}
    /\ live = FirstOnly
    /\ fs = [n \in Instances |-> NoFiles]
    /\ IdleNorm
    /\ IdleExt

NextExists ==
    \/ \E i \in Inv : E_Start(i, ExistsNames) /\ UNCHANGED <<normVars, extVars>>
    \/ \E i \in Inv : E_Exists(i, MayFail) /\ UNCHANGED <<normVars, extVars>>
    \/ \E i \in Inv : E_Download(i, MayFail) /\ UNCHANGED <<normVars, extVars>>
    \/ \E i \in Inv : E_Save(i, MayFail) /\ UNCHANGED <<normVars, extVars>>

SpecExists == InitExists /\ [][NextExists]_vars

\* the invocations for JSON object n that have written the .txt
C29_Writers(n) == {i \in Inv : inv[i].name = n /\ inv[i].wrote = "ok"}

\* C29 (as claimed): in the exists()-then-save variant an existing .txt is
\* never overwritten: for every interleaving of two or more invocations for
\* the same JSON object, sequential or concurrent, at most one of them writes
\* the .txt.
C29_AtMostOneWriter ==
    \A n \in ExistsNames : Cardinality(C29_Writers(n)) <= 1

(***************************************************************************)
(* SpecGen: the generation-pinned revision while a/c.m4a is uploaded       *)
(* again.  Every generation of the object has its own recording, so the    *)
(* recognition result tells which generation was transcribed.              *)
(***************************************************************************)
GenResult(g) == IF g = 1 THEN R_hi ELSE IF g = 2 THEN R_padded ELSE R_none

InitGen ==
    /\ deploy = "tempPromote"
    /\ precond \in BOOLEAN
    /\ ceiling = SYNC_MAX_SECONDS_pinned
    /\ inv = [i \in Inv |-> IdleInv]
    /\ txt = EmptyBucket
    /\ flac = {}
    /\ live = FirstOnly
    /\ fs = [n \in Instances |-> NoFiles]
    /\ IdleNorm
    /\ IdleExt

NextGen ==
    \/ G_Upload({Obj_a}) /\ UNCHANGED <<normVars, extVars>>
    \/ \E i \in Inv : U_Start(i, {Obj_a}, {i}) /\ UNCHANGED <<normVars, extVars>>
    \/ \E i \in Inv : U_Download(i, NoFail) /\ UNCHANGED <<normVars, extVars>>
    \/ \E i \in Inv : U_Probe(i, {0}) /\ UNCHANGED <<normVars, extVars>>
    \/ \E i \in Inv : U_Transcode(i, NoFail) /\ UNCHANGED <<normVars, extVars>>
    \/ \E i \in Inv : U_Select(i) /\ UNCHANGED <<normVars, extVars>>
    \/ \E i \in Inv : U_ReadFile(i) /\ UNCHANGED <<normVars, extVars>>
    \/ \E i \in Inv : U_Recognize(i, NoFail, {GenResult(inv[i].audioGen)})
                         /\ UNCHANGED <<normVars, extVars>>
    \/ \E i \in Inv : U_TmpSave(i, NoFail) /\ UNCHANGED <<normVars, extVars>>
    \/ \E i \in Inv : U_DeleteOld(i, NoFail) /\ UNCHANGED <<normVars, extVars>>
    \/ \E i \in Inv : U_Promote(i, NoFail) /\ UNCHANGED <<normVars, extVars>>
    \/ \E i \in Inv : U_Cleanup(i, NoFail) /\ UNCHANGED <<normVars, extVars>>
    \/ \E i \in Inv : U_Finally(i) /\ UNCHANGED <<normVars, extVars>>
    \/ \E i \in Inv : U_FinallyOut(i) /\ UNCHANGED <<normVars, extVars>>

SpecGen == InitGen /\ [][NextGen]_vars

\* the text written for the recording of generation g
C30_TranscriptOf(g) == TextSync(ExtractSync(GenResult(g)))

\* every invocation has read and recognized the generation of its event
C30_Pinned ==
    \A i \in Inv :
       /\ inv[i].audioGen # 0 => inv[i].audioGen = inv[i].gen
       /\ inv[i].resp # NoResult => inv[i].resp = GenResult(inv[i].gen)

\* one invocation for each uploaded generation of a/c.m4a, all completed
C30_AllCompleted ==
    /\ \A i \in Inv : inv[i].pc = "done" /\ ~inv[i].threw /\ inv[i].name = Obj_a
    /\ {inv[i].gen : i \in Inv} = 1..LiveOf(Obj_a)
    /\ LiveOf(Obj_a) = NumInv

\* C30 (as claimed): with generation pinning and temp-then-promote each
\* invocation transcribes the object generation named in its event, and once
\* the invocations for all uploaded generations of one input name have
\* completed, in any interleaving, the final .txt holds the transcript of the
\* newest generation, never that of an older one.
C30_NewestWins ==
    /\ C30_Pinned
    /\ C30_AllCompleted =>
          /\ Txt_c \in DOMAIN txt
          /\ txt[Txt_c] = C30_TranscriptOf(LiveOf(Obj_a))

(***************************************************************************)
(* Output keys                                                             *)
(***************************************************************************)
\* invocation i is on the synchronous path and has computed outName
C31_HasOutName(i) ==
    /\ inv[i].handler = "upload"
    /\ inv[i].useSync
    /\ inv[i].text # <<>>

\* C31 (as claimed): on the synchronous path the output key is the input
\* object's name with its final extension replaced by ".txt", for every
\* input object name, names with a directory prefix included; so two inputs
\* with different names never map to the same output key.
C31_KeyFromName ==
    \A i \in Inv :
       C31_HasOutName(i) =>
          /\ inv[i].key = ReplaceExt(inv[i].name, S_txt)
          /\ \A j \in Inv :
                (C31_HasOutName(j) /\ inv[j].name # inv[i].name)
                    => inv[j].key # inv[i].key

(***************************************************************************)
(* SpecCascade: one upload, and onAudioTranscribed triggered by every      *)
(* object that appears in the transcripts bucket: the recognizer's JSON    *)
(* results and whatever the handlers themselves have written there.        *)
(***************************************************************************)
CascadeUploads == {Obj_a, Obj_d}
CascadeJson == {Json_c, Json_ct}

InitCascade ==
    /\ deploy \in {"createOnly", "tempPromote"}
    /\ precond \in BOOLEAN
    /\ ceiling = SYNC_MAX_SECONDS_pinned
    /\ inv = [i \in Inv |-> IdleInv]
    /\ txt = EmptyBucket
    /\ flac = {}
    /\ live = FirstOnly
    /\ fs = [n \in Instances |-> NoFiles]
    /\ IdleNorm
    /\ IdleExt

NextCascade ==
    \/ U_Start(1, CascadeUploads, {1}) /\ UNCHANGED <<normVars, extVars>>
    \/ U_Download(1, NoFail) /\ UNCHANGED <<normVars, extVars>>
    \/ U_Probe(1, {0, SYNC_MAX_SECONDS_pinned + 1}) /\ UNCHANGED <<normVars, extVars>>
    \/ U_Pause(1, {QuietRun}) /\ UNCHANGED <<normVars, extVars>>
    \/ U_Transcode(1, NoFail) /\ UNCHANGED <<normVars, extVars>>
    \/ U_Select(1) /\ UNCHANGED <<normVars, extVars>>
    \/ U_ReadFile(1) /\ UNCHANGED <<normVars, extVars>>
    \/ U_Recognize(1, NoFail, {R_hi}) /\ UNCHANGED <<normVars, extVars>>
    \/ U_Write(1, NoFail) /\ UNCHANGED <<normVars, extVars>>
    \/ U_TmpSave(1, NoFail) /\ UNCHANGED <<normVars, extVars>>
    \/ U_DeleteOld(1, NoFail) /\ UNCHANGED <<normVars, extVars>>
    \/ U_Promote(1, MayFail) /\ UNCHANGED <<normVars, extVars>>
    \/ U_Cleanup(1, MayFail) /\ UNCHANGED <<normVars, extVars>>
    \/ U_Upload(1, NoFail) /\ UNCHANGED <<normVars, extVars>>
    \/ U_Batch(1, NoFail) /\ UNCHANGED <<normVars, extVars>>
    \/ U_Finally(1) /\ UNCHANGED <<normVars, extVars>>
    \/ U_FinallyOut(1) /\ UNCHANGED <<normVars, extVars>>
    \/ \E i \in Inv \ {1} : T_Start(i, CascadeJson \cup DOMAIN txt)
                               /\ UNCHANGED <<normVars, extVars>>
    \/ \E i \in Inv \ {1} : T_Download(i, NoFail) /\ UNCHANGED <<normVars, extVars>>
    \/ \E i \in Inv \ {1} : T_SaveSettles(i, MayFail) /\ UNCHANGED <<normVars, extVars>>

SpecCascade == InitCascade /\ [][NextCascade]_vars

(***************************************************************************)
(* Trigger cascade                                                         *)
(***************************************************************************)
\* keys the pipeline itself writes: final artifacts and temporaries
C32_OwnKey(k) == EndsWithSeq(k, S_txt) \/ EndsWithSeq(k, S_partial)

\* every object the handlers have written is one the handler skips, an
\* invocation for such an object has returned without a read or a write,
\* and no invocation writes to the key of the object that triggered it
C32_Skipped ==
    /\ \A k \in DOMAIN txt : C32_OwnKey(k) /\ ~EndsWithSeq(lower(k), S_json)
    /\ \A i \in Inv :
          inv[i].handler = "transcribed" =>
             /\ C32_OwnKey(inv[i].name) =>
                   /\ inv[i].pc = "done"
                   /\ inv[i].key = <<>>
                   /\ inv[i].resp = NoResult
                   /\ inv[i].text = <<>>
                   /\ inv[i].wrote = "none"
             /\ inv[i].key # inv[i].name
             /\ inv[i].key # <<>> => EndsWithSeq(inv[i].key, S_txt)

\* the invocation for an object of the pipeline's own leaves the bucket alone
C32_NoWrite ==
    \A i \in Inv :
       (inv'[i].handler = "transcribed" /\ C32_OwnKey(inv'[i].name)
          /\ inv'[i] # inv[i]) => txt' = txt

\* C32: the trigger cascade terminates: objects the pipeline itself creates
\* in the transcripts bucket (final .txt artifacts and tmp/*.partial
\* temporaries) are skipped by onAudioTranscribed with no store read or
\* write, and onAudioTranscribed never writes to the key of the JSON object
\* that triggered it, so every handler-initiated write is followed by no
\* further write.
C32_CascadeTerminates == [](C32_Skipped) /\ [][C32_NoWrite]_vars

\* the event for the temporary object of a/c.m4a has been handled and skipped
C32_Witness ==
    /\ inv[1].name = Obj_a
    /\ \E i \in Inv \ {1} :
          /\ inv[i].handler = "transcribed"
          /\ inv[i].name = TmpNameOf(Obj_a)
          /\ inv[i].pc = "done"

(***************************************************************************)
(* The temporary key as a lock                                             *)
(***************************************************************************)
\* invocation i is between its successful temp create and its temp cleanup
C33_InSection(i) ==
    /\ deploy = "tempPromote"
    /\ inv[i].handler = "upload"
    /\ inv[i].pc \in {"deleteold", "promote", "cleanup"}

\* no two invocations for one output name are in the section together
C33_OneHolder ==
    \A i, j \in Inv :
       (i # j /\ inv[i].key = inv[j].key) => ~(C33_InSection(i) /\ C33_InSection(j))

\* a delete-old or copy step is taken only while no other invocation for the
\* same output name is in the section
C33_NoInterleaving ==
    \A i, j \in Inv :
       (/\ i # j
        /\ inv[i].key = inv[j].key
        /\ C33_InSection(i)
        /\ inv[i].pc \in {"deleteold", "promote"}
        /\ inv'[i].pc # inv[i].pc) => ~C33_InSection(j)

\* C33 (as claimed): under temp-then-promote the create-only temporary key
\* acts as a lock: for a given output name at most one invocation at a time
\* is between a successful temp create and its temp cleanup, so the
\* delete-old and copy steps of two invocations for the same output name
\* never interleave.
C33_TempKeyIsLock == [](C33_OneHolder) /\ [][C33_NoInterleaving]_vars

(***************************************************************************)
(* No doubled symbol                                                       *)
(***************************************************************************)
C34_EndsTwice(tok, sym) ==
    Len(tok) >= 2 /\ tok[Len(tok)] = sym /\ tok[Len(tok) - 1] = sym

\* the loop is at a punctuation word or phrase that is not escaped
C34_Converting ==
    /\ nstage = "loop"
    /\ ni <= Len(ntoks)
    /\ PhraseLen(ntoks, ni) > 0
    /\ ~(nout # <<>> /\ lower(nout[Len(nout)]) = W_literal)

\* a conversion drops the word; the last emitted token is left as it is when
\* it already ends with the symbol, and gets one copy of it otherwise
C34_Step ==
    (C34_Converting /\ ni' # ni) =>
        LET sym == PhraseSymbol(ntoks, ni)
            last == nout[Len(nout)]
        IN /\ ni' = ni + PhraseLen(ntoks, ni)
           /\ nout = <<>> => nout' = <<<<sym>>>>
           /\ (nout # <<>> /\ EndsWith(last, sym)) => nout' = nout
           /\ (nout # <<>> /\ ~EndsWith(last, sym)) =>
                 /\ nout' = [nout EXCEPT ![Len(nout)] = last \o <<sym>>]
                 /\ ~C34_EndsTwice(nout'[Len(nout')], sym)

C34_Examples ==
    (nstage = "done" /\ ntoks \in {Ex_twice, Ex_already}) => nres = W_helloDot

\* C34: converting a punctuation word never makes a token end with two
\* copies of the same symbol: when the preceding emitted token already ends
\* with that symbol, from an earlier conversion or from punctuation present
\* in the input, the token is left unchanged and the punctuation word is
\* still dropped, so "hello period period" and "hello. period" both give
\* "hello.".
C34_NoDoubledSymbol == [](C34_Examples) /\ [][C34_Step]_vars

\* "hello. period" has been returned as "hello."
C34_Witness ==
    /\ nstage = "done"
    /\ ntoks = Ex_already
    /\ nout = <<W_helloDot>>
    /\ nres = W_helloDot

====
